---- MODULE Spec2Model ----
(***************************************************************************)
(* Swap orchestration pipeline of the MCP server (packages/mcp-server):    *)
(* the tool handlers dragonswap_swap, sailor_swap (refactored and legacy), *)
(* dragonswap_quote, sailor_quote and execute_arbitrage_opportunity, with  *)
(* the services they call (validation, quote, approval, gas, execution,    *)
(* response building).  One tool invocation runs at a time; the chain, the *)
(* wallet and the routing APIs are the environment, whose answers are      *)
(* drawn when the handler reaches the call.                                *)
(***************************************************************************)
EXTENDS Integers, Sequences, FiniteSets, TLC

(* ------------------------------ bounds --------------------------------- *)
MaxAmount == 2
MaxBase == 1
MaxDecimals == 1
MaxQuote == 1
MaxHops == 2
MaxMinProfit == 3
MaxNow == 4
MaxFetches == 3

(* -------------------------- program constants -------------------------- *)
ApprovalConfirmations == 2
BpsBase == 10000
DefaultSlippageBps == 200
FeeHexDigits == 6
SmallOutputWei == 10000
MinSmallSlippageBps == 500
ApiGasBuffer == 50000
SailorGasBuffer == 200000
SailorMultiHopGas == 400000
SailorSingleHopGas == 350000
DragonSwapFallbackGas == 300000
SailorFallbackGas == 400000

VARIABLES
    config,        \* protocolConfig singleton: protocol -> enabled
    pc,            \* position of the running handler
    tool,          \* the tool invoked
    req,           \* the tool's parameters
    swapInfo,      \* result of MulticallService.getSwapInfo
    quotes,        \* per DEX: outcome of <Dex>ApiService.getQuote
    loc,           \* the handler's local variables
    approval,      \* state of the approval transaction
    exec,          \* state of the swap transaction(s)
    attempts,      \* every wallet submission attempted by this invocation
    log,           \* events of this invocation, in order
    raised,        \* messages of the exceptions raised so far
    result,        \* the response returned to the caller
    escaped,       \* an exception left the handler
    route,         \* the argument of a call of encodeV3Path
    encoded,       \* what that call returned or threw
    analysis,      \* the arbitrage handler's analysis of the two quotes
    gasInput,      \* the argument of a call of estimateAndPriceGas
    gasPlan,       \* the GasResult of that call
    subcalls,      \* how each sub-call of a batched read ends on the chain
    read,          \* what getSwapInfo or getTokenBasicInfo answered
    call,          \* a dragonswap_swap call as the server receives it
    fetcher,       \* BaseTokenFetcher.cache and lastFetch
    getTokensCalls, \* the getTokens calls of each caller
    tokenSource,   \* clock and source of the token fetcher
    allowanceOnChain, \* allowance(wallet, spender) of tokenIn on the chain
    requests       \* two concurrent swap requests

vars == <<config, pc, tool, req, swapInfo, quotes, loc, approval, exec,
          attempts, log, raised, result, escaped, route, encoded, analysis,
          gasInput, gasPlan, subcalls, read, call, fetcher, getTokensCalls,
          tokenSource, allowanceOnChain, requests>>

Dexes == {"dragonswap", "sailor"}

SwapTools == {"dragonswap_swap", "sailor_swap",
              "dragonswap_swap_legacy", "sailor_swap_legacy"}
QuoteTools == {"dragonswap_quote", "sailor_quote"}
ArbitrageTool == "execute_arbitrage_opportunity"
Tools == SwapTools \cup QuoteTools \cup {ArbitrageTool}

LegacyTools == {"dragonswap_swap_legacy", "sailor_swap_legacy"}

\* The protocol a swap or quote tool belongs to.
ProtocolOf(t) ==
    IF t \in {"dragonswap_swap", "dragonswap_swap_legacy", "dragonswap_quote"}
    THEN "dragonswap" ELSE "sailor"

ROUTER == [dragonswap |-> "DRAGONSWAP_ROUTER", sailor |-> "SAILOR_ROUTER"]
API_CONTRACT == "API_CONTRACT"

(* --------------------------- pure helpers ------------------------------ *)
RECURSIVE TenPow(_)
TenPow(d) == IF d = 0 THEN 1 ELSE 10 * TenPow(d - 1)

\* viem parseUnits on a whole-number decimal string.
parseUnits(amount, decimals) == amount * TenPow(decimals)

\* viem formatUnits: the decimal string, as its whole and fractional digits.
formatUnits(value, decimals) ==
    [whole |-> value \div TenPow(decimals),
     frac |-> value % TenPow(decimals),
     digits |-> decimals]

NoUnits == [whole |-> 0, frac |-> 0, digits |-> 0]

\* On-chain amounts in base units the chain may answer for a token of
\* `decimals` decimals: a few base units, whole tokens, and one unit less.
BaseAmounts(decimals) ==
    (0..MaxBase)
    \cup {b * TenPow(decimals) : b \in 0..MaxBase}
    \cup {b * TenPow(decimals) - 1 : b \in 1..MaxBase}

(* ----------------------------- responses ------------------------------- *)
NoResult ==
    [kind |-> "none", message |-> "", suggestions |-> FALSE,
     required |-> NoUnits, available |-> NoUnits,
     hash |-> FALSE, blockNumber |-> FALSE, caughtAt |-> "none",
     autoCalculated |-> FALSE]

Response(kind, message, suggestions, caughtAt) ==
    [NoResult EXCEPT !.kind = kind, !.message = message,
                     !.suggestions = suggestions, !.caughtAt = caughtAt]

\* SwapValidationService.createProtocolDisabledError
createProtocolDisabledError == Response("protocol_disabled", "", TRUE, "none")
\* SwapValidationService.createWalletNotConnectedError
createWalletNotConnectedError == Response("wallet_not_connected", "", FALSE, "none")
\* SwapResponseService.createErrorResponse, and the legacy and arbitrage
\* handlers' outermost catch blocks, which build the same shape.
createErrorResponse(message) == Response("error", message, TRUE, "outer")
\* SwapResponseService.createUnsupportedPairError
createUnsupportedPairError(message) ==
    Response("unsupported_pair", message, TRUE, "quote")

(* ------------------------------ state ---------------------------------- *)
NoRequest ==
    [amountIn |-> 0, minGiven |-> FALSE, minAmountOut |-> 0, dryRun |-> FALSE,
     minProfitPercent |-> 0]

NoSwapInfo ==
    [source |-> "none", tokenInDecimals |-> 0, tokenOutDecimals |-> 0,
     balance |-> 0, allowance |-> 0]

\* A getQuote call: not made, pending, fulfilled (the normalised response)
\* or rejected (the Error thrown).
NoQuote ==
    [status |-> "none", out |-> 0, calldata |-> FALSE, hops |-> 0,
     failure |-> "", message |-> ""]

NoLoc ==
    [amountInParsed |-> 0,
     minSet |-> FALSE,            \* the local minAmountOut is truthy
     minAmountOut |-> 0,          \* its value, in units of 1/BpsBase
     wasMinAmountOutProvided |-> FALSE,
     minAmountOutParsed |-> 0,
     useApiCalldata |-> FALSE,
     path |-> "direct",           \* [tokenIn, tokenOut] or the API's route
     spenderAddress |-> "",
     currentAllowance |-> 0,
     spenderAllowance |-> 0,      \* what the chain holds for the API's contract
     executeDex |-> ""]

NoApproval ==
    [status |-> "none", confirmations |-> 0, success |-> FALSE,
     receipt |-> "none"]

\* TransactionResult of SwapExecutionService, and what happened on the way.
NoExec ==
    [submitted |-> FALSE, submitThrew |-> FALSE, waitThrew |-> FALSE,
     receipt |-> "none", returned |-> FALSE,
     success |-> FALSE, hash |-> FALSE, hasReceipt |-> FALSE, type |-> ""]

\* A route of the Sailor quote API (SailorPoolHop[]); given = FALSE is a
\* null or undefined route.  An absent field of a hop is << >> (a token) or
\* of kind "none" (a fee).
NoRoute == [given |-> FALSE, hops |-> << >>]

NoEncoded == [by |-> "none", threw |-> FALSE, error |-> "", path |-> << >>]

\* The arbitrage handler's locals of its step 3; profitPercent is the
\* fraction num/den.
NoAnalysis ==
    [made |-> FALSE, betterDex |-> "", betterOutput |-> 0, worseOutput |-> 0,
     profitAmount |-> 0, profitPercent |-> [num |-> 0, den |-> 1],
     buyDex |-> "", sellDex |-> ""]

\* GasEstimationParams as the swap handlers fill it, with what the chain
\* would answer; 0 stands for an absent (falsy) value.
\* No batched read was made: the outcome of every sub-call, and what the
\* reader answered.
NoSubcalls == << >>
NoRead ==
    [by |-> "none", status |-> "none", message |-> "", calls |-> << >>,
     info |-> << >>]

\* No tool call has arrived at the server.
NoCall ==
    [stage |-> "none", tokenIn |-> << >>, tokenOut |-> << >>,
     amountIn |-> << >>, slippage |-> [given |-> FALSE, value |-> 0],
     chainRead |-> FALSE]

NoGasInput ==
    [protocol |-> "", gasLimit |-> 0, gasPrice |-> 0, hasQuote |-> FALSE,
     useApiCalldata |-> FALSE, isComplexRouting |-> FALSE,
     gasUseEstimate |-> 0, estimated_gas |-> 0,
     apiMaxPriorityFeePerGas |-> 0, apiMaxFeePerGas |-> 0,
     liveEstimate |-> 0, chainGasPrice |-> 0]

\* GasResult.
NoGasPlan ==
    [made |-> FALSE, estimatedGas |-> 0, maxFeePerGas |-> 0,
     maxPriorityFeePerGas |-> 0]

\* BaseTokenFetcher after construction: cache null (0), lastFetch 0.  A
\* cached list is named by the number of the fetch that produced it.
NoFetcher == [cache |-> 0, lastFetch |-> 0]

\* The callers of one fetcher; each has at most one getTokens call pending.
Callers == {"c1", "c2"}

\* No getTokens call was made.  now, forceRefresh: the call's locals;
\* cacheAtStart, ageAtStart, afterClear, cacheAtFailure, last: what the call
\* found, kept for the properties (afterClear: the first call begun after a
\* clearCache; cacheAtFailure: the cache when the fetch rejected; last: the
\* latest successfully fetched list when the call returned).
NoTokenCall ==
    [pc |-> "idle", now |-> 0, forceRefresh |-> FALSE, cacheAtStart |-> 0,
     ageAtStart |-> 0, afterClear |-> FALSE, fetched |-> FALSE,
     failed |-> FALSE, cacheAtFailure |-> 0, threw |-> FALSE,
     returned |-> 0, last |-> 0]
NoTokenCalls == [c \in Callers |-> NoTokenCall]

\* The world of the fetcher: Date.now(), the fetches begun, the latest list
\* the source delivered, whether clearCache ran since the last call began,
\* and whether two operations ever overlapped.
NoTokenSource ==
    [now |-> 1, fetches |-> 0, served |-> 0, cleared |-> FALSE,
     overlapped |-> FALSE]

\* Two swap requests of one wallet for one token and one spender.
Requests == {"r1", "r2"}

\* A swap request that has not arrived.  amountIn: its parameter; enabled,
\* currentAllowance, approveOutcome, swapOutcome: what protocolConfig and
\* the chain answered it; allowanceAtSubmit: the spender's on-chain
\* allowance when its swap was submitted (kept for the properties).
NoSwapRequest ==
    [pc |-> "idle", amountIn |-> 0, enabled |-> FALSE,
     currentAllowance |-> 0, approveOutcome |-> "none",
     allowanceAtSubmit |-> 0, swapOutcome |-> "none", result |-> "none"]
NoSwapRequests == [r \in Requests |-> NoSwapRequest]

\* No handler is running.
HandlersIdle ==
    /\ config = [p \in Dexes |-> TRUE]
    /\ pc = "idle"
    /\ tool = "none"
    /\ req = NoRequest
    /\ swapInfo = NoSwapInfo
    /\ quotes = [d \in Dexes |-> NoQuote]
    /\ loc = NoLoc
    /\ approval = NoApproval
    /\ exec = NoExec
    /\ attempts = << >>
    /\ log = << >>
    /\ raised = << >>
    /\ result = NoResult
    /\ escaped = FALSE
    /\ analysis = NoAnalysis

Init ==
    /\ HandlersIdle
    /\ route = NoRoute
    /\ encoded = NoEncoded
    /\ allowanceOnChain = 0
    /\ requests = NoSwapRequests
    /\ fetcher = NoFetcher
    /\ getTokensCalls = NoTokenCalls
    /\ tokenSource = NoTokenSource
    /\ call = NoCall
    /\ subcalls = NoSubcalls
    /\ read = NoRead
    /\ gasInput = NoGasInput
    /\ gasPlan = NoGasPlan

(* --------------------- ends of a handler invocation -------------------- *)
\* return <response>
Return(response) ==
    /\ pc' = "done"
    /\ result' = response
    /\ escaped' = FALSE

\* The try/catch that wraps each handler body (part_001:118/313 and 343/550,
\* part_001:567/650 and 668/750, swap-tools.ts:109/757 and 1379/1916,
\* part_000:70/359): whether an exception thrown in the body is caught.
HandlerCatches_None(t) == FALSE
HandlerCatches(t) == TRUE

\* An exception with `message` propagates to the handler's outermost catch;
\* `inner` are the exceptions an inner catch block swallowed on the way.
ThrowToHandler(inner, message) ==
    /\ raised' = raised \o inner \o <<message>>
    /\ pc' = "done"
    /\ IF HandlerCatches(tool)
       THEN /\ result' = createErrorResponse(message)
            /\ escaped' = FALSE
       ELSE /\ result' = NoResult
            /\ escaped' = TRUE

(* ------------------------------ config --------------------------------- *)
\* ProtocolConfigManager.isEnabled via shouldFetchProtocolData
shouldFetchProtocolData(protocol) == config[protocol]

\* ProtocolConfigManager.toggleProtocol, between tool invocations
toggleProtocol(protocol) ==
    /\ pc = "idle"
    /\ UNCHANGED <<route, encoded, analysis, gasInput, gasPlan, subcalls, read, call, fetcher, getTokensCalls, tokenSource, allowanceOnChain, requests>>
    /\ config' = [config EXCEPT ![protocol] = ~config[protocol]]
    /\ UNCHANGED <<pc, tool, req, swapInfo, quotes, loc, approval, exec,
                   attempts, log, raised, result, escaped>>

\* ProtocolConfigManager.enableProtocol, between tool invocations
enableProtocol(protocol) ==
    /\ pc = "idle"
    /\ UNCHANGED <<route, encoded, analysis, gasInput, gasPlan, subcalls, read, call, fetcher, getTokensCalls, tokenSource, allowanceOnChain, requests>>
    /\ config' = [config EXCEPT ![protocol] = TRUE]
    /\ UNCHANGED <<pc, tool, req, swapInfo, quotes, loc, approval, exec,
                   attempts, log, raised, result, escaped>>

\* ProtocolConfigManager.disableProtocol, between tool invocations
disableProtocol(protocol) ==
    /\ pc = "idle"
    /\ UNCHANGED <<route, encoded, analysis, gasInput, gasPlan, subcalls, read, call, fetcher, getTokensCalls, tokenSource, allowanceOnChain, requests>>
    /\ config' = [config EXCEPT ![protocol] = FALSE]
    /\ UNCHANGED <<pc, tool, req, swapInfo, quotes, loc, approval, exec,
                   attempts, log, raised, result, escaped>>

\* ProtocolConfigManager.resetToDefaults: DragonSwap and Sailor enabled
resetToDefaults ==
    /\ pc = "idle"
    /\ UNCHANGED <<route, encoded, analysis, gasInput, gasPlan, subcalls, read, call, fetcher, getTokensCalls, tokenSource, allowanceOnChain, requests>>
    /\ config' = [d \in Dexes |-> TRUE]
    /\ UNCHANGED <<pc, tool, req, swapInfo, quotes, loc, approval, exec,
                   attempts, log, raised, result, escaped>>

(* ------------------------------ entry ---------------------------------- *)
\* The tool is called with parameters that passed the zod schema.
Invoke(t, amountIn, minGiven, minAmountOut, dryRun, minProfit) ==
    /\ pc = "idle"
    /\ UNCHANGED <<route, encoded, analysis, gasInput, gasPlan, subcalls, read, call, fetcher, getTokensCalls, tokenSource, allowanceOnChain, requests>>
    /\ tool' = t
    /\ req' = [amountIn |-> amountIn, minGiven |-> minGiven,
               minAmountOut |-> minAmountOut, dryRun |-> dryRun,
               minProfitPercent |-> minProfit]
    /\ pc' = "entry"
    /\ swapInfo' = NoSwapInfo
    /\ quotes' = [d \in Dexes |-> NoQuote]
    /\ loc' = [NoLoc EXCEPT !.minSet = minGiven,
                            !.minAmountOut = minAmountOut * BpsBase,
                            !.wasMinAmountOutProvided = minGiven]
    /\ approval' = NoApproval
    /\ exec' = NoExec
    /\ attempts' = << >>
    /\ log' = << >>
    /\ raised' = << >>
    /\ result' = NoResult
    /\ escaped' = FALSE
    /\ UNCHANGED config

\* Protocol check, clients, wallet account.
Entry(wallet) ==
    /\ pc = "entry"
    /\ UNCHANGED <<route, encoded, analysis, gasInput, gasPlan, subcalls, read, call, fetcher, getTokensCalls, tokenSource, allowanceOnChain, requests>>
    /\ UNCHANGED <<config, tool, req, swapInfo, quotes, loc, approval, exec,
                   attempts, log>>
    /\ IF tool # ArbitrageTool /\ ~shouldFetchProtocolData(ProtocolOf(tool))
       THEN Return(createProtocolDisabledError) /\ UNCHANGED raised
       ELSE CASE wallet = "throws" ->
                   ThrowToHandler(<< >>, "wallet client unavailable")
              [] wallet = "no_account" ->
                   Return(createWalletNotConnectedError) /\ UNCHANGED raised
              [] OTHER ->
                   /\ pc' = IF tool \in SwapTools THEN "validate" ELSE "basic_info"
                   /\ UNCHANGED <<raised, result, escaped>>

(* ---------------------------- validation ------------------------------- *)
\* The insufficient-balance response (part_001:873-896, swap-tools.ts:165-188
\* and 1437-1461).
insufficientBalanceError(amountInParsed, info) ==
    [Response("insufficient_balance", "", FALSE, "none") EXCEPT
        !.required = formatUnits(amountInParsed, info.tokenInDecimals),
        !.available = formatUnits(info.balance, info.tokenInDecimals)]

\* The balance comparison of the validation stage.
balanceTooLow_Reversed(balance, amountInParsed) == balance > amountInParsed
balanceTooLow(balance, amountInParsed) == balance < amountInParsed

validateSwapParameters_AlwaysValid(amountIn, info) ==
    [isValid |-> TRUE,
     amountInParsed |-> parseUnits(amountIn, info.tokenInDecimals),
     error |-> NoResult]

\* SwapValidationService.validateSwapParameters after getSwapInfo returned;
\* the legacy handlers do the same inline.
validateSwapParameters(amountIn, info) ==
    LET amountInParsed == parseUnits(amountIn, info.tokenInDecimals) IN
    IF balanceTooLow(info.balance, amountInParsed)
    THEN [isValid |-> FALSE, amountInParsed |-> amountInParsed,
          error |-> insufficientBalanceError(amountInParsed, info)]
    ELSE [isValid |-> TRUE, amountInParsed |-> amountInParsed,
          error |-> NoResult]

\* validateSwapParameters' own catch block.
validationError(message) == Response("validation_error", message, FALSE, "validation")

\* The batched read answered: decimals of both tokens, balance, allowance.
Validate(dIn, dOut, balance, allowance) ==
    /\ pc = "validate"
    /\ UNCHANGED <<route, encoded, analysis, gasInput, gasPlan, subcalls, read, call, fetcher, getTokensCalls, tokenSource, allowanceOnChain, requests>>
    \* the arbitrage handler has read the decimals of the same tokens before
    /\ swapInfo.source = "basic" =>
          dIn = swapInfo.tokenInDecimals /\ dOut = swapInfo.tokenOutDecimals
    /\ LET info == [source |-> "swap", tokenInDecimals |-> dIn,
                    tokenOutDecimals |-> dOut, balance |-> balance,
                    allowance |-> allowance]
           v == validateSwapParameters(req.amountIn, info)
       IN /\ swapInfo' = info
          /\ loc' = [loc EXCEPT !.amountInParsed = v.amountInParsed,
                                 !.currentAllowance = allowance]
          /\ IF v.isValid
             THEN /\ pc' = IF tool = ArbitrageTool THEN "approval" ELSE "quote"
                  /\ UNCHANGED <<result, escaped>>
             ELSE Return(v.error)
    /\ UNCHANGED <<config, tool, req, quotes, approval, exec, attempts, log, raised>>

\* getSwapInfo threw: the batched call failed or a sub-result did not decode.
ValidateReadFails(message) ==
    /\ pc = "validate"
    /\ UNCHANGED <<route, encoded, analysis, gasInput, gasPlan, subcalls, read, call, fetcher, getTokensCalls, tokenSource, allowanceOnChain, requests>>
    /\ UNCHANGED <<config, tool, req, swapInfo, quotes, loc, approval, exec,
                   attempts, log>>
    /\ IF tool \in LegacyTools
       THEN ThrowToHandler(<< >>, message)
       ELSE /\ raised' = Append(raised, message)
            /\ Return(validationError(message))

\* MulticallService.getTokenBasicInfo of the quote and arbitrage tools.
BasicInfo(dIn, dOut) ==
    /\ pc = "basic_info"
    /\ UNCHANGED <<route, encoded, analysis, gasInput, gasPlan, subcalls, read, call, fetcher, getTokensCalls, tokenSource, allowanceOnChain, requests>>
    /\ swapInfo' = [NoSwapInfo EXCEPT !.source = "basic",
                       !.tokenInDecimals = dIn, !.tokenOutDecimals = dOut]
    /\ pc' = "quote"
    /\ UNCHANGED <<config, tool, req, quotes, loc, approval, exec, attempts,
                   log, raised, result, escaped>>

BasicInfoFails ==
    /\ pc = "basic_info"
    /\ UNCHANGED <<route, encoded, analysis, gasInput, gasPlan, subcalls, read, call, fetcher, getTokensCalls, tokenSource, allowanceOnChain, requests>>
    /\ ThrowToHandler(<< >>, "multicall failed")
    /\ UNCHANGED <<config, tool, req, swapInfo, quotes, loc, approval, exec,
                   attempts, log>>

(* ------------------------------- quotes -------------------------------- *)
Failures == {"timeout", "no_route", "unavailable"}

QuoteFulfilled(out, calldata, hops) ==
    [status |-> "fulfilled", out |-> out, calldata |-> calldata, hops |-> hops,
     failure |-> "none"]
QuoteRejected(failure) ==
    [status |-> "rejected", out |-> 0, calldata |-> FALSE, hops |-> 0,
     failure |-> failure]

\* What <Dex>ApiService.getQuote can settle to.  Only the DragonSwap response
\* carries methodParameters; a response with calldata is executed as is.
QuoteOutcomes_None(dex) == {}

QuoteOutcomes(dex) ==
    {QuoteRejected(f) : f \in Failures}
    \cup {QuoteFulfilled(out, FALSE, hops) : out \in 0..MaxQuote, hops \in 0..MaxHops}
    \cup (IF dex = "dragonswap"
          THEN {QuoteFulfilled(out, TRUE, 1) : out \in 0..MaxQuote}
          ELSE {})

\* The message of the Error getQuote throws.
errorMessage(dex, failure) ==
    IF dex = "dragonswap"
    THEN CASE failure = "timeout" -> "DragonSwap API timeout after <timeoutMs>ms"
           [] failure = "no_route" ->
                "DragonSwap API error: 404 Not Found - No trading route found"
           [] OTHER -> "DragonSwap API error: 503 Service Unavailable"
    ELSE CASE failure = "timeout" -> "Sailor API timeout after <timeoutMs>ms"
           [] failure = "no_route" -> "Sailor API error: 400 Bad Request - no route"
           [] OTHER -> "Sailor API error: 503 Service Unavailable"

\* apiError.message.includes("No trading route found")
includesNoTradingRoute_Never(message) == FALSE
includesNoTradingRoute(message) ==
    message = "DragonSwap API error: 404 Not Found - No trading route found"

\* if (!minAmountOut) throw ... in the DragonSwap handlers' quote catch block
minAmountOutMissing_Never(minSet) == FALSE
minAmountOutMissing(minSet) == ~minSet

\* DragonSwapApiService.calculateMinAmountOut on a whole-number quote, in
\* units of 1/BpsBase of a token.
calculateMinAmountOut(out, slippageBps) == out * (BpsBase - slippageBps)

\* The inline minimum of the Sailor handlers, in wei.
sailorMinAmountOut(totalAmountOut, slippageBps) ==
    IF totalAmountOut < SmallOutputWei
    THEN LET minSlippage == IF slippageBps > MinSmallSlippageBps
                            THEN slippageBps ELSE MinSmallSlippageBps
         IN (totalAmountOut * (BpsBase - minSlippage)) \div BpsBase
    ELSE (totalAmountOut * (BpsBase - slippageBps)) \div BpsBase

\* viem parseUnits on a decimal string held in units of 1/BpsBase: digits
\* beyond `decimals` are rounded half up.
parseUnitsDecimal(x, decimals) ==
    (x * TenPow(decimals) + (BpsBase \div 2)) \div BpsBase

\* BigInt(<decimal string of a whole number>)
BigIntOf(x) == x \div BpsBase

createQuoteResponse == Response("quote", "", FALSE, "none")
\* The legacy sailor_swap answer to a failed quote.
routeNotSupportedError == Response("unsupported_pair", "", TRUE, "quote")

\* The quote stage of dragonswap_swap, refactored and legacy.  The legacy
\* handler also rejects a non-positive quote and reads the block number
\* before it accepts the API's calldata.
DragonSwapQuote(q, blockNumberThrows) ==
    /\ pc = "quote"
    /\ UNCHANGED <<route, encoded, analysis, gasInput, gasPlan, subcalls, read, call, fetcher, getTokensCalls, tokenSource, allowanceOnChain, requests>>
    /\ tool \in {"dragonswap_swap", "dragonswap_swap_legacy"}
    /\ q \in QuoteOutcomes("dragonswap")
    /\ quotes' = [quotes EXCEPT !["dragonswap"] = q]
    /\ UNCHANGED <<config, tool, req, swapInfo, approval, exec, attempts, log>>
    /\ LET message == errorMessage("dragonswap", q.failure)
           minAmountOut == IF q.status = "fulfilled" /\ ~loc.minSet
                           THEN calculateMinAmountOut(q.out, DefaultSlippageBps)
                           ELSE loc.minAmountOut
           minSet == loc.minSet \/ q.status = "fulfilled"
           legacyThrows == /\ tool = "dragonswap_swap_legacy"
                           /\ q.out <= 0 \/ blockNumberThrows
           useApiCalldata == /\ q.status = "fulfilled" /\ q.calldata
                             /\ ~legacyThrows
           thrown == CASE q.status = "rejected" -> <<message>>
                       [] q.calldata /\ legacyThrows ->
                            <<IF q.out <= 0
                              THEN "API returned zero or negative output amount"
                              ELSE "getBlockNumber failed">>
                       [] ~q.calldata /\ q.hops = 0 -> <<"Invalid route">>
                       [] OTHER -> << >>
       IN IF q.status = "rejected" /\ includesNoTradingRoute(message)
          THEN /\ raised' = raised \o thrown
               /\ Return(createUnsupportedPairError(message))
               /\ UNCHANGED loc
          ELSE IF minAmountOutMissing(minSet)
          THEN /\ ThrowToHandler(thrown,
                     "minAmountOut is required when DragonSwap API is unavailable")
               /\ UNCHANGED loc
          ELSE /\ raised' = raised \o thrown
               /\ loc' = [loc EXCEPT
                    !.minSet = minSet,
                    !.minAmountOut = minAmountOut,
                    !.minAmountOutParsed =
                        parseUnitsDecimal(minAmountOut, swapInfo.tokenOutDecimals),
                    !.useApiCalldata = useApiCalldata,
                    !.path = IF thrown = << >> /\ ~useApiCalldata
                             THEN "route" ELSE "direct",
                    !.spenderAddress = IF useApiCalldata THEN API_CONTRACT
                                       ELSE ROUTER["dragonswap"]]
               /\ pc' = IF useApiCalldata THEN "allowance" ELSE "approval"
               /\ UNCHANGED <<result, escaped>>

\* The quote stage of sailor_swap, refactored and legacy.
SailorQuote(q) ==
    /\ pc = "quote"
    /\ UNCHANGED <<route, encoded, analysis, gasInput, gasPlan, subcalls, read, call, fetcher, getTokensCalls, tokenSource, allowanceOnChain, requests>>
    /\ tool \in {"sailor_swap", "sailor_swap_legacy"}
    /\ q \in QuoteOutcomes("sailor")
    /\ quotes' = [quotes EXCEPT !["sailor"] = q]
    /\ UNCHANGED <<config, tool, req, swapInfo, approval, exec, attempts, log>>
    /\ IF q.status = "rejected"
       THEN /\ raised' = Append(raised, errorMessage("sailor", q.failure))
            /\ Return(IF tool = "sailor_swap"
                      THEN createUnsupportedPairError(errorMessage("sailor", q.failure))
                      ELSE routeNotSupportedError)
            /\ UNCHANGED loc
       ELSE LET minAmountOut == IF loc.minSet THEN loc.minAmountOut
                                ELSE BpsBase * sailorMinAmountOut(q.out, DefaultSlippageBps)
            IN /\ loc' = [loc EXCEPT
                    !.minSet = TRUE,
                    !.minAmountOut = minAmountOut,
                    !.minAmountOutParsed = BigIntOf(minAmountOut),
                    !.path = IF q.hops > 1 THEN "route" ELSE "direct",
                    !.spenderAddress = ROUTER["sailor"]]
               /\ pc' = "approval"
               /\ UNCHANGED <<raised, result, escaped>>

\* dragonswap_quote and sailor_quote: whatever is thrown inside the inner
\* try block is answered with the unsupported-pair error.
QuoteOnly(q) ==
    /\ pc = "quote"
    /\ UNCHANGED <<route, encoded, analysis, gasInput, gasPlan, subcalls, read, call, fetcher, getTokensCalls, tokenSource, allowanceOnChain, requests>>
    /\ tool \in QuoteTools
    /\ q \in QuoteOutcomes(ProtocolOf(tool))
    /\ quotes' = [quotes EXCEPT ![ProtocolOf(tool)] = q]
    /\ UNCHANGED <<config, tool, req, swapInfo, loc, approval, exec, attempts, log>>
    /\ LET thrown == CASE q.status = "rejected" ->
                            <<errorMessage(ProtocolOf(tool), q.failure)>>
                       [] q.hops = 0 -> <<"Invalid route">>
                       [] OTHER -> << >>
       IN /\ raised' = raised \o thrown
          /\ Return(IF thrown = << >> THEN createQuoteResponse
                    ELSE createUnsupportedPairError(thrown[1]))

(* ------------------------------ arbitrage ------------------------------ *)
\* The fields of a quote the arbitrage handler reads.
ArbitrageOutcomes(dex) ==
    {q \in QuoteOutcomes(dex) : q.status = "fulfilled" => ~q.calldata /\ q.hops = 1}

\* Outputs in base units of tokenOut: DragonSwap quotes in tokens, Sailor in wei.
dragonOutput(q, decimals) == q.out * TenPow(decimals)
sailorOutput(q, decimals) == q.out

\* betterDex = dragonOutput > sailorOutput ? 'DragonSwap' : 'Sailor'
betterDex_Lower(d, s) == IF d < s THEN "dragonswap" ELSE "sailor"
betterDex(d, s) == IF d > s THEN "dragonswap" ELSE "sailor"

OtherDex(dex) == IF dex = "dragonswap" THEN "sailor" ELSE "dragonswap"

\* profitPercent = (profitAmount / worseOutput) * 100, as a fraction.
profitPercent_Bps(profitAmount, worseOutput) ==
    [num |-> profitAmount * BpsBase, den |-> worseOutput]
profitPercent(profitAmount, worseOutput) ==
    [num |-> profitAmount * 100, den |-> worseOutput]

\* profitPercent < minProfitPercent; a division by a zero worse output gives
\* Infinity or NaN, for which the comparison is false.
belowThreshold_Never(better, worse, minProfitPercent) == FALSE
belowThreshold(better, worse, minProfitPercent) ==
    LET p == profitPercent(better - worse, worse)
    IN p.den # 0 /\ p.num < minProfitPercent * p.den

\* Step 3 of the handler: the comparison of the two outputs.
analyzeOutputs(d, s) ==
    LET better == IF d > s THEN d ELSE s
        worse == IF d > s THEN s ELSE d
    IN [made |-> TRUE,
        betterDex |-> betterDex(d, s),
        betterOutput |-> better,
        worseOutput |-> worse,
        profitAmount |-> better - worse,
        profitPercent |-> profitPercent(better - worse, worse),
        buyDex |-> OtherDex(betterDex(d, s)),
        sellDex |-> betterDex(d, s)]

\* if (dryRun) return the analysis without executing
dryRunRequested_Never(dryRun) == FALSE
dryRunRequested(dryRun) == dryRun

\* Promise.allSettled resolves when each of the two promises has settled.
allSettled_Any(qd, qs) == qd.status # "none" \/ qs.status # "none"
allSettled(qd, qs) == qd.status # "none" /\ qs.status # "none"

\* One of the two getQuote promises settles; they were started together and
\* settle in either order.
ArbitrageQuoteSettles(dex, q) ==
    /\ pc = "quote"
    /\ UNCHANGED <<route, encoded, analysis, gasInput, gasPlan, subcalls, read, call, fetcher, getTokensCalls, tokenSource, allowanceOnChain, requests>>
    /\ tool = ArbitrageTool
    /\ quotes[dex].status = "none"
    /\ q \in ArbitrageOutcomes(dex)
    /\ quotes' = [quotes EXCEPT ![dex] = q]
    /\ raised' = IF q.status = "rejected"
                 THEN Append(raised, errorMessage(dex, q.failure))
                 ELSE raised
    /\ UNCHANGED <<config, pc, tool, req, swapInfo, loc, approval, exec,
                   attempts, log, result, escaped>>

\* The handler resumes after Promise.allSettled: the analysis up to the
\* decision.
ArbitrageQuotes ==
    /\ pc = "quote"
    /\ UNCHANGED <<route, encoded, gasInput, gasPlan, subcalls, read, call, fetcher, getTokensCalls, tokenSource, allowanceOnChain, requests>>
    /\ tool = ArbitrageTool
    /\ allSettled(quotes["dragonswap"], quotes["sailor"])
    /\ UNCHANGED <<config, tool, req, swapInfo, quotes, approval, exec,
                   attempts, log, raised>>
    /\ LET qd == quotes["dragonswap"]
           qs == quotes["sailor"]
           a == analyzeOutputs(dragonOutput(qd, swapInfo.tokenOutDecimals),
                               sailorOutput(qs, swapInfo.tokenOutDecimals))
           executeDex == OtherDex(a.betterDex)
       IN CASE qd.status = "rejected" /\ qs.status = "rejected" ->
                 /\ Return(Response("no_quotes",
                               errorMessage("dragonswap", qd.failure), TRUE, "quote"))
                 /\ UNCHANGED <<loc, analysis>>
            [] qd.status = "rejected" \/ qs.status = "rejected" ->
                 /\ Return(Response("one_dex_available", "", FALSE, "quote"))
                 /\ UNCHANGED <<loc, analysis>>
            [] OTHER ->
                 /\ analysis' = a
                 /\ IF belowThreshold(a.betterOutput, a.worseOutput,
                                      req.minProfitPercent)
                    THEN Return(Response("not_executed", "", FALSE, "none"))
                         /\ UNCHANGED loc
                    ELSE IF dryRunRequested(req.dryRun)
                    THEN Return(Response("dry_run", "", FALSE, "none"))
                         /\ UNCHANGED loc
                    ELSE /\ loc' = [loc EXCEPT !.executeDex = executeDex,
                                               !.spenderAddress = ROUTER[executeDex]]
                         /\ pc' = "validate"
                         /\ UNCHANGED <<result, escaped>>

(* ------------------------------ approval ------------------------------- *)
\* SwapApprovalService.checkAllowanceForSpender, and the legacy inline read:
\* the allowance granted to the API's contract, or the router's on failure.
checkAllowanceForSpender(readOk, value, defaultAllowance) ==
    IF readOk THEN value ELSE defaultAllowance

CheckAllowance(readOk, value) ==
    /\ pc = "allowance"
    /\ UNCHANGED <<route, encoded, analysis, gasInput, gasPlan, subcalls, read, call, fetcher, getTokensCalls, tokenSource, allowanceOnChain, requests>>
    /\ loc' = [loc EXCEPT !.currentAllowance =
                  checkAllowanceForSpender(readOk, value, swapInfo.allowance),
                           !.spenderAllowance = value]
    /\ pc' = "approval"
    /\ UNCHANGED <<config, tool, req, swapInfo, quotes, approval, exec,
                   attempts, log, raised, result, escaped>>

\* The amount services.approveERC20 approves for (amount, decimals).
approveERC20Amount(amountIn, decimals) == parseUnits(amountIn, decimals)

\* if (currentAllowance >= amountInParsed) return { success: true }
allowanceSufficient_Strict(currentAllowance, amountInParsed) ==
    currentAllowance > amountInParsed
allowanceSufficient(currentAllowance, amountInParsed) ==
    currentAllowance >= amountInParsed

\* waitForTransactionReceipt({confirmations: 2}) resolves
approvalWaitResolves_AtOnce(confirmations) == TRUE
approvalWaitResolves(confirmations) == confirmations >= ApprovalConfirmations

approvalFailedError(message) == Response("approval_failed", message, TRUE, "approval")

\* Where a handler continues once the approval stage succeeded.  The
\* refactored sailor_swap refuses a quote without a first hop here.
AfterApproval ==
    IF tool = "sailor_swap" /\ quotes["sailor"].hops = 0
    THEN Return([createErrorResponse("Missing route data for single-hop swap")
                    EXCEPT !.caughtAt = "none"])
    ELSE pc' = "gas" /\ UNCHANGED <<result, escaped>>

\* handleAutoApproval with a sufficient allowance.
ApprovalNotNeeded ==
    /\ pc = "approval"
    /\ UNCHANGED <<route, encoded, analysis, gasInput, gasPlan, subcalls, read, call, fetcher, getTokensCalls, tokenSource, allowanceOnChain, requests>>
    /\ allowanceSufficient(loc.currentAllowance, loc.amountInParsed)
    /\ approval' = [approval EXCEPT !.status = "not_needed", !.success = TRUE]
    /\ AfterApproval
    /\ UNCHANGED <<config, tool, req, swapInfo, quotes, loc, exec, attempts,
                   log, raised>>

\* handleAutoApproval with an insufficient allowance: approveERC20 is called.
ApprovalSubmit(accepted) ==
    /\ pc = "approval"
    /\ UNCHANGED <<route, encoded, analysis, gasInput, gasPlan, subcalls, read, call, fetcher, getTokensCalls, tokenSource, allowanceOnChain, requests>>
    /\ ~allowanceSufficient(loc.currentAllowance, loc.amountInParsed)
    /\ attempts' = Append(attempts,
          [kind |-> "approve", to |-> loc.spenderAddress, fn |-> "approve",
           amount |-> approveERC20Amount(req.amountIn, swapInfo.tokenInDecimals),
           minOut |-> 0, accepted |-> accepted])
    /\ IF accepted
       THEN /\ approval' = [approval EXCEPT !.status = "pending"]
            /\ log' = Append(log, "approval_submitted")
            /\ pc' = "approve_wait"
            /\ UNCHANGED <<raised, result, escaped>>
       ELSE /\ approval' = [approval EXCEPT !.status = "failed"]
            /\ raised' = Append(raised, "approve rejected")
            /\ Return(approvalFailedError("approve rejected"))
            /\ UNCHANGED log
    /\ UNCHANGED <<config, tool, req, swapInfo, quotes, loc, exec>>

\* A block includes or confirms the approval transaction.
ApprovalConfirmation ==
    /\ pc = "approve_wait"
    /\ UNCHANGED <<route, encoded, analysis, gasInput, gasPlan, subcalls, read, call, fetcher, getTokensCalls, tokenSource, allowanceOnChain, requests>>
    /\ ~approvalWaitResolves(approval.confirmations)
    /\ approval' = [approval EXCEPT !.confirmations = @ + 1]
    /\ UNCHANGED <<config, pc, tool, req, swapInfo, quotes, loc, exec,
                   attempts, log, raised, result, escaped>>

\* The wait resolves with the receipt, whose status is not read: a reverted
\* approval is taken for a confirmed one.
ApprovalReceipt(receiptStatus) ==
    /\ pc = "approve_wait"
    /\ UNCHANGED <<route, encoded, analysis, gasInput, gasPlan, subcalls, read, call, fetcher, getTokensCalls, tokenSource, allowanceOnChain, requests>>
    /\ approvalWaitResolves(approval.confirmations)
    /\ approval' = [approval EXCEPT !.status = "confirmed", !.success = TRUE,
                                     !.receipt = receiptStatus]
    /\ log' = Append(log, "approval_confirmed")
    /\ AfterApproval
    /\ UNCHANGED <<config, tool, req, swapInfo, quotes, loc, exec, attempts,
                   raised>>

\* The 45 s wait ends before the confirmations arrived (or the read fails).
ApprovalWaitThrows ==
    /\ pc = "approve_wait"
    /\ UNCHANGED <<route, encoded, analysis, gasInput, gasPlan, subcalls, read, call, fetcher, getTokensCalls, tokenSource, allowanceOnChain, requests>>
    /\ ~approvalWaitResolves(approval.confirmations)
    /\ approval' = [approval EXCEPT !.status = "failed"]
    /\ raised' = Append(raised, "wait for approval receipt failed")
    /\ Return(approvalFailedError("wait for approval receipt failed"))
    /\ UNCHANGED <<config, tool, req, swapInfo, quotes, loc, exec, attempts, log>>

(* ----------------------------- gas, simulate --------------------------- *)
\* The minimum output of the arbitrage leg, in base units of tokenOut:
\* floor(targetOutput * (100 - slippage) / 100 * 10^decimals).
arbitrageMinAmountOut(targetOutput, slippageBps) ==
    (targetOutput * (BpsBase - slippageBps)) \div BpsBase

\* SwapGasService.estimateAndPriceGas and the legacy inline code: a failed
\* estimate falls back to a constant, a failed getGasPrice is thrown on.
Gas(gasPriceThrows) ==
    /\ pc = "gas"
    /\ UNCHANGED <<route, encoded, analysis, gasInput, gasPlan, subcalls, read, call, fetcher, getTokensCalls, tokenSource, allowanceOnChain, requests>>
    /\ UNCHANGED <<config, tool, req, swapInfo, quotes, approval, exec,
                   attempts, log>>
    /\ IF gasPriceThrows
       THEN ThrowToHandler(<< >>, "getGasPrice failed") /\ UNCHANGED loc
       ELSE /\ pc' = IF tool = "dragonswap_swap_legacy" THEN "simulate"
                     ELSE "submit"
            /\ loc' = IF tool # ArbitrageTool THEN loc
                      ELSE [loc EXCEPT !.minAmountOutParsed =
                              arbitrageMinAmountOut(
                                  IF loc.executeDex = "dragonswap"
                                  THEN dragonOutput(quotes["dragonswap"],
                                                    swapInfo.tokenOutDecimals)
                                  ELSE sailorOutput(quotes["sailor"],
                                                    swapInfo.tokenOutDecimals),
                                  DefaultSlippageBps)]
            /\ UNCHANGED <<raised, result, escaped>>

simulationFailedError(message) ==
    Response("simulation_failed", message, TRUE, "simulation")

\* The legacy dragonswap_swap simulates the call before it submits.
Simulate(passes) ==
    /\ pc = "simulate"
    /\ UNCHANGED <<route, encoded, analysis, gasInput, gasPlan, subcalls, read, call, fetcher, getTokensCalls, tokenSource, allowanceOnChain, requests>>
    /\ UNCHANGED <<config, tool, req, swapInfo, quotes, loc, approval, exec,
                   attempts, log>>
    /\ IF passes
       THEN pc' = "submit" /\ UNCHANGED <<raised, result, escaped>>
       ELSE /\ raised' = Append(raised, "execution reverted")
            /\ Return(simulationFailedError("execution reverted"))

(* ------------------------------ execution ------------------------------ *)
\* The contract function the handler submits.
swapFunction ==
    CASE tool \in {"dragonswap_swap", "dragonswap_swap_legacy"} ->
            IF loc.useApiCalldata
            THEN (IF tool = "dragonswap_swap" THEN "sendTransaction" ELSE "multicall")
            ELSE "swapExactTokensForTokens"
      [] tool \in {"sailor_swap", "sailor_swap_legacy"} ->
            IF quotes["sailor"].hops > 1 THEN "exactInput" ELSE "exactInputSingle"
      [] OTHER ->
            IF loc.executeDex = "dragonswap" THEN "swapExactTokensForTokens"
            ELSE "exactInputSingle"

swapAttempt(fn, accepted) ==
    [kind |-> "swap", to |-> loc.spenderAddress, fn |-> fn,
     amount |-> loc.amountInParsed, minOut |-> loc.minAmountOutParsed,
     accepted |-> accepted]

\* executeTransaction's and executeRawTransaction's catch blocks.
executionFailedError(raw, message) ==
    Response("execution_failed", message, ~raw, "execution")

\* The answers to a reverted receipt; the raw variant names no block.
transactionRevertedError(raw) ==
    [Response("transaction_reverted", "", ~raw, "none") EXCEPT
        !.hash = TRUE, !.blockNumber = ~raw]

\* slippage.autoCalculated of the success response: the refactored handlers
\* negate the local minAmountOut as it is at the end, the legacy handlers
\* the flag taken at the start, the arbitrage handler writes true.
autoCalculated ==
    IF tool \in LegacyTools THEN ~loc.wasMinAmountOutProvided
    ELSE IF tool = ArbitrageTool THEN TRUE
    ELSE ~loc.minSet

createSuccessResponse ==
    [Response("success", "", FALSE, "none") EXCEPT
        !.hash = TRUE, !.blockNumber = TRUE,
        !.autoCalculated = autoCalculated]

\* The TransactionResult executeTransaction / executeRawTransaction return:
\* anything thrown inside their try block, by the submission or by the wait
\* for the receipt, is an execution_failed; a reverted receipt is reported
\* with the hash and the receipt.
TransactionResult_StatusIgnored(submitThrew, waitThrew, receiptStatus) ==
    IF submitThrew \/ waitThrew
    THEN [success |-> FALSE, type |-> "execution_failed",
          hash |-> FALSE, hasReceipt |-> FALSE]
    ELSE [success |-> TRUE, type |-> "", hash |-> TRUE, hasReceipt |-> TRUE]

TransactionResult(submitThrew, waitThrew, receiptStatus) ==
    IF submitThrew \/ waitThrew
    THEN [success |-> FALSE, type |-> "execution_failed",
          hash |-> FALSE, hasReceipt |-> FALSE]
    ELSE IF receiptStatus = "reverted"
    THEN [success |-> FALSE, type |-> "transaction_reverted",
          hash |-> TRUE, hasReceipt |-> TRUE]
    ELSE [success |-> TRUE, type |-> "", hash |-> TRUE, hasReceipt |-> TRUE]

Returned(e, r) ==
    [e EXCEPT !.returned = TRUE, !.success = r.success, !.type = r.type,
              !.hash = r.hash, !.hasReceipt = r.hasReceipt]

\* Whether the handler runs the transaction through the raw executor.
IsRaw == tool = "dragonswap_swap" /\ loc.useApiCalldata

\* walletClient.writeContract / sendTransaction for the swap.
Submit(accepted) ==
    /\ pc = "submit"
    /\ UNCHANGED <<route, encoded, analysis, gasInput, gasPlan, subcalls, read, call, fetcher, getTokensCalls, tokenSource, allowanceOnChain, requests>>
    /\ attempts' = Append(attempts, swapAttempt(swapFunction, accepted))
    /\ log' = Append(log, "swap_submitted")
    /\ UNCHANGED <<config, tool, req, swapInfo, quotes, loc, approval>>
    /\ IF accepted
       THEN /\ exec' = [exec EXCEPT !.submitted = TRUE]
            /\ pc' = "wait"
            /\ UNCHANGED <<raised, result, escaped>>
       ELSE IF tool \in LegacyTools
       THEN IF swapFunction = "multicall"
            THEN /\ exec' = exec
                 /\ raised' = Append(raised, "multicall submission failed")
                 /\ pc' = "submit_fallback"
                 /\ UNCHANGED <<result, escaped>>
            ELSE /\ exec' = [exec EXCEPT !.submitThrew = TRUE]
                 /\ ThrowToHandler(<< >>, "submission failed")
       ELSE /\ exec' = Returned([exec EXCEPT !.submitThrew = TRUE],
                                TransactionResult(TRUE, FALSE, "none"))
            /\ raised' = Append(raised, "submission failed")
            /\ Return(executionFailedError(IsRaw, "submission failed"))

\* The legacy dragonswap_swap sends the API's original calldata after its
\* multicall submission threw.
SubmitFallback(accepted) ==
    /\ pc = "submit_fallback"
    /\ UNCHANGED <<route, encoded, analysis, gasInput, gasPlan, subcalls, read, call, fetcher, getTokensCalls, tokenSource, allowanceOnChain, requests>>
    /\ attempts' = Append(attempts, swapAttempt("sendTransaction", accepted))
    /\ log' = Append(log, "swap_submitted")
    /\ UNCHANGED <<config, tool, req, swapInfo, quotes, loc, approval>>
    /\ IF accepted
       THEN /\ exec' = [exec EXCEPT !.submitted = TRUE]
            /\ pc' = "wait"
            /\ UNCHANGED <<raised, result, escaped>>
       ELSE /\ exec' = [exec EXCEPT !.submitThrew = TRUE]
            /\ ThrowToHandler(<< >>, "submission failed")

\* waitForTransactionReceipt({timeout: 60_000}) for the swap.
WaitReceipt(outcome) ==
    /\ pc = "wait"
    /\ UNCHANGED <<route, encoded, analysis, gasInput, gasPlan, subcalls, read, call, fetcher, getTokensCalls, tokenSource, allowanceOnChain, requests>>
    /\ outcome \in {"success", "reverted", "throws"}
    /\ UNCHANGED <<config, tool, req, swapInfo, quotes, loc, approval,
                   attempts, log>>
    /\ LET e == [exec EXCEPT !.waitThrew = (outcome = "throws"),
                             !.receipt = IF outcome = "throws" THEN "none"
                                         ELSE outcome]
           r == TransactionResult(FALSE, outcome = "throws", outcome)
       IN IF tool \in LegacyTools
          THEN /\ exec' = e
               /\ CASE outcome = "throws" ->
                         ThrowToHandler(<< >>, "wait for receipt failed")
                    [] outcome = "reverted" ->
                         Return(transactionRevertedError(FALSE)) /\ UNCHANGED raised
                    [] OTHER ->
                         Return(createSuccessResponse) /\ UNCHANGED raised
          ELSE /\ exec' = Returned(e, r)
               /\ CASE r.type = "execution_failed" ->
                         /\ raised' = Append(raised, "wait for receipt failed")
                         /\ Return(executionFailedError(IsRaw, "wait for receipt failed"))
                    [] r.type = "transaction_reverted" ->
                         Return(transactionRevertedError(IsRaw)) /\ UNCHANGED raised
                    [] OTHER ->
                         Return(createSuccessResponse) /\ UNCHANGED raised

\* The response has been delivered and the invocation's locals are gone; the
\* server is ready for the next call.
Finish ==
    /\ pc = "done"
    /\ UNCHANGED <<route, encoded, gasInput, gasPlan, subcalls, read, call, fetcher, getTokensCalls, tokenSource, allowanceOnChain, requests>>
    /\ analysis' = NoAnalysis
    /\ pc' = "idle"
    /\ tool' = "none"
    /\ req' = NoRequest
    /\ swapInfo' = NoSwapInfo
    /\ quotes' = [d \in Dexes |-> NoQuote]
    /\ loc' = NoLoc
    /\ approval' = NoApproval
    /\ exec' = NoExec
    /\ attempts' = << >>
    /\ log' = << >>
    /\ raised' = << >>
    /\ result' = NoResult
    /\ escaped' = FALSE
    /\ UNCHANGED config

(* --------------------------- specification ----------------------------- *)
Next ==
    \/ \E p \in Dexes : toggleProtocol(p)
    \/ \E p \in Dexes : enableProtocol(p)
    \/ \E p \in Dexes : disableProtocol(p)
    \/ resetToDefaults
    \/ \E t \in SwapTools, a \in 1..MaxAmount, m \in 0..MaxAmount :
          Invoke(t, a, m > 0, m, FALSE, 0)
    \/ \E t \in QuoteTools, a \in 1..MaxAmount :
          Invoke(t, a, FALSE, 0, FALSE, 0)
    \/ \E a \in 1..MaxAmount, dryRun \in BOOLEAN, minProfit \in 0..1 :
          Invoke(ArbitrageTool, a, FALSE, 0, dryRun, minProfit)
    \/ \E wallet \in {"ok", "no_account", "throws"} : Entry(wallet)
    \/ \E dIn, dOut \in 0..MaxDecimals :
          \E balance, allowance \in BaseAmounts(dIn) :
             Validate(dIn, dOut, balance, allowance)
    \/ ValidateReadFails("Failed to get swap info")
    \/ \E dIn, dOut \in 0..MaxDecimals : BasicInfo(dIn, dOut)
    \/ BasicInfoFails
    \/ \E q \in QuoteOutcomes("dragonswap"), b \in BOOLEAN : DragonSwapQuote(q, b)
    \/ \E q \in QuoteOutcomes("sailor") : SailorQuote(q)
    \/ \E q \in QuoteOutcomes("dragonswap") \cup QuoteOutcomes("sailor") : QuoteOnly(q)
    \/ \E dex \in Dexes,
          q \in ArbitrageOutcomes("dragonswap") \cup ArbitrageOutcomes("sailor") :
          ArbitrageQuoteSettles(dex, q)
    \/ ArbitrageQuotes
    \/ \E readOk \in BOOLEAN, value \in BaseAmounts(swapInfo.tokenInDecimals) :
          CheckAllowance(readOk, value)
    \/ ApprovalNotNeeded
    \/ \E accepted \in BOOLEAN : ApprovalSubmit(accepted)
    \/ ApprovalConfirmation
    \/ \E receiptStatus \in {"success", "reverted"} :
          ApprovalReceipt(receiptStatus)
    \/ ApprovalWaitThrows
    \/ \E gasPriceThrows \in BOOLEAN : Gas(gasPriceThrows)
    \/ \E passes \in BOOLEAN : Simulate(passes)
    \/ \E accepted \in BOOLEAN : Submit(accepted)
    \/ \E accepted \in BOOLEAN : SubmitFallback(accepted)
    \/ \E outcome \in {"success", "reverted", "throws"} : WaitReceipt(outcome)
    \/ Finish

Spec == Init /\ [][Next]_vars

\* A step of a running handler.  Every await of a handler settles: the quote
\* fetch by its AbortController timer, the two receipt waits by viem's
\* timeout, the other calls by the answer of the node.
HandlerStep == pc # "idle" /\ Next

FairSpec == Spec /\ WF_vars(HandlerStep)


(* --------------------------- encodeV3Path ------------------------------ *)
\* Strings are sequences of one-character strings.
HexChars ==
    <<"0", "1", "2", "3", "4", "5", "6", "7", "8", "9",
      "a", "b", "c", "d", "e", "f">>

RECURSIVE Repeat(_, _)
Repeat(c, n) == IF n = 0 THEN << >> ELSE <<c>> \o Repeat(c, n - 1)

\* Two token addresses as the API writes them: "0x" and 40 hex digits, in
\* either case.
TokenA == <<"0", "x">> \o Repeat("A", 40)
TokenB == <<"0", "x">> \o Repeat("b", 40)
Tokens == {TokenA, TokenB}

NoFee == [kind |-> "none", value |-> 0]
FeeValues == {0, 3000, 10000, 16777216}
Fees ==
    {NoFee} \cup {[kind |-> k, value |-> v] :
                     k \in {"string", "number"}, v \in FeeValues}

\* What a hop adds to the hops before it.
HopTails == [token_out : Tokens \cup {<< >>}, fee : Fees]

\* The hop list that starts at token t0 and goes on by the tails c; each hop
\* after the first starts at the token the hop before it ends at.
MakeHops(t0, c) ==
    [i \in 1..Len(c) |->
        [token_in |-> IF i = 1 THEN t0 ELSE c[i - 1].token_out,
         token_out |-> c[i].token_out,
         fee |-> c[i].fee]]

\* Number.prototype.toString(10): the decimal rendering.
RECURSIVE toString10(_)
toString10(n) ==
    IF n < 10 THEN <<HexChars[n + 1]>>
    ELSE toString10(n \div 10) \o <<HexChars[(n % 10) + 1]>>

\* Number.prototype.toString(16) of a non-negative integer.
RECURSIVE toString16(_)
toString16(n) ==
    IF n < 16 THEN <<HexChars[n + 1]>>
    ELSE toString16(n \div 16) \o <<HexChars[(n % 16) + 1]>>

padStart_None(str, targetLength, padString) == str

\* String.prototype.padStart: pads, never cuts.
RECURSIVE padStart(_, _, _)
padStart(str, targetLength, padString) ==
    IF Len(str) >= targetLength THEN str
    ELSE padStart(<<padString>> \o str, targetLength, padString)

toLowerCaseChar(c) ==
    CASE c = "A" -> "a" [] c = "B" -> "b" [] c = "C" -> "c"
      [] c = "D" -> "d" [] c = "E" -> "e" [] c = "F" -> "f"
      [] c = "X" -> "x" [] OTHER -> c

toLowerCase(str) == [i \in 1..Len(str) |-> toLowerCaseChar(str[i])]

\* str.replace('0x', ''): the first occurrence is removed.
replace0x(str) ==
    LET at == {i \in 1..(Len(str) - 1) : str[i] = "0" /\ str[i + 1] = "x"}
    IN IF at = {} THEN str
       ELSE LET i == CHOOSE k \in at : \A j \in at : k <= j
            IN SubSeq(str, 1, i - 1) \o SubSeq(str, i + 2, Len(str))

\* !hop.fee: undefined, "" and the number 0 are falsy, the string "0" is not.
feeFalsy(fee) == fee.kind = "none" \/ (fee.kind = "number" /\ fee.value = 0)

\* parseInt(hop.fee).toString(16).padStart(6, '0'); parseInt(undefined) is
\* NaN and NaN.toString(16) is "NaN".
feeHex(fee) ==
    padStart(IF fee.kind = "none" THEN <<"N", "a", "N">>
             ELSE toString16(fee.value),
             FeeHexDigits, "0")

RECURSIVE pathFrom(_, _)
pathFrom(hops, i) ==
    IF i > Len(hops) THEN << >>
    ELSE feeHex(hops[i].fee) \o replace0x(toLowerCase(hops[i].token_out))
         \o pathFrom(hops, i + 1)

PathThrew(by, error) ==
    [by |-> by, threw |-> TRUE, error |-> error, path |-> << >>]

PathReturned(by, hops) ==
    [by |-> by, threw |-> FALSE, error |-> "",
     path |-> <<"0", "x">> \o replace0x(toLowerCase(hops[1].token_in))
              \o pathFrom(hops, 1)]

\* encodeV3Path of the refactored tools.
encodeV3Path(r) ==
    IF ~r.given \/ Len(r.hops) = 0
    THEN PathThrew("refactored", "Invalid route for V3 path encoding")
    ELSE IF r.hops[1].token_in = << >>
    THEN PathThrew("refactored",
                   "Invalid route structure: missing token_in in first hop")
    ELSE IF \E i \in 1..Len(r.hops) :
               r.hops[i].token_out = << >> \/ feeFalsy(r.hops[i].fee)
    THEN PathThrew("refactored", "Invalid route hop: missing token_out or fee")
    ELSE PathReturned("refactored", r.hops)

\* encodeV3Path of the legacy tools: it reads hop.tokenIn.address and
\* hop.tokenOut.address (a TypeError when the token is absent) and does not
\* look at the fee before formatting it.
encodeV3PathLegacy(r) ==
    IF ~r.given \/ Len(r.hops) = 0
    THEN PathThrew("legacy", "Invalid route for V3 path encoding")
    ELSE IF \/ r.hops[1].token_in = << >>
            \/ \E i \in 1..Len(r.hops) : r.hops[i].token_out = << >>
    THEN PathThrew("legacy", "TypeError")
    ELSE PathReturned("legacy", r.hops)

\* sailor_swap encodes the route of the quote.
SailorSwapEncodesPath ==
    /\ encoded.by = "none"
    /\ encoded' = encodeV3Path(route)
    /\ UNCHANGED <<config, pc, tool, req, swapInfo, quotes, loc, approval,
                   exec, attempts, log, raised, result, escaped, route,
                   analysis, gasInput, gasPlan, subcalls, read, call, fetcher, getTokensCalls, tokenSource, allowanceOnChain, requests>>

\* The legacy sailor_swap encodes the route of the quote.
LegacySailorSwapEncodesPath ==
    /\ encoded.by = "none"
    /\ encoded' = encodeV3PathLegacy(route)
    /\ UNCHANGED <<config, pc, tool, req, swapInfo, quotes, loc, approval,
                   exec, attempts, log, raised, result, escaped, route,
                   analysis, gasInput, gasPlan, subcalls, read, call, fetcher, getTokensCalls, tokenSource, allowanceOnChain, requests>>

InitPath ==
    /\ HandlersIdle
    /\ \/ route = NoRoute
       \/ \E t0 \in Tokens \cup {<< >>}, n \in 0..MaxHops :
             \E c \in [1..n -> HopTails] :
                route = [given |-> TRUE, hops |-> MakeHops(t0, c)]
    /\ encoded = NoEncoded
    /\ allowanceOnChain = 0
    /\ requests = NoSwapRequests
    /\ fetcher = NoFetcher
    /\ getTokensCalls = NoTokenCalls
    /\ tokenSource = NoTokenSource
    /\ call = NoCall
    /\ subcalls = NoSubcalls
    /\ read = NoRead
    /\ gasInput = NoGasInput
    /\ gasPlan = NoGasPlan

NextPath == SailorSwapEncodesPath \/ LegacySailorSwapEncodesPath

SpecPath == InitPath /\ [][NextPath]_vars


(* ----------------------------- SwapGasService -------------------------- *)

\* SwapGasService.estimateGas; liveEstimate = 0 is estimateContractGas
\* throwing.
estimateGas(g) ==
    IF g.useApiCalldata /\ g.hasQuote /\ g.gasUseEstimate # 0
    THEN g.gasUseEstimate + ApiGasBuffer
    ELSE IF g.protocol = "sailor"
    THEN IF g.isComplexRouting /\ g.hasQuote /\ g.estimated_gas # 0
         THEN g.estimated_gas + SailorGasBuffer
         ELSE IF g.isComplexRouting THEN SailorMultiHopGas
         ELSE SailorSingleHopGas
    ELSE IF g.liveEstimate # 0 THEN g.liveEstimate
    ELSE IF g.protocol = "sailor" THEN SailorFallbackGas
    ELSE DragonSwapFallbackGas

calculateGasParameters_PriceOnly(currentGasPrice, g) ==
    [maxPriorityFeePerGas |->
        IF g.hasQuote /\ g.apiMaxPriorityFeePerGas # 0
        THEN g.apiMaxPriorityFeePerGas ELSE currentGasPrice \div 10,
     maxFeePerGas |->
        IF g.hasQuote /\ g.apiMaxFeePerGas # 0
        THEN g.apiMaxFeePerGas ELSE currentGasPrice * 2]

\* SwapGasService.calculateGasParameters.
calculateGasParameters(currentGasPrice, g) ==
    LET priority == IF g.hasQuote /\ g.apiMaxPriorityFeePerGas # 0
                    THEN g.apiMaxPriorityFeePerGas
                    ELSE currentGasPrice \div 10
    IN [maxPriorityFeePerGas |-> priority,
        maxFeePerGas |->
           IF g.hasQuote /\ g.apiMaxFeePerGas # 0 THEN g.apiMaxFeePerGas
           ELSE IF g.hasQuote /\ g.apiMaxPriorityFeePerGas # 0
           THEN priority * 2
           ELSE currentGasPrice * 2]

\* SwapGasService.estimateAndPriceGas.
estimateAndPriceGas(g) ==
    LET currentGasPrice == IF g.gasPrice # 0 THEN g.gasPrice
                           ELSE g.chainGasPrice
        gasParams == calculateGasParameters(currentGasPrice, g)
    IN [made |-> TRUE,
        estimatedGas |-> IF g.gasLimit # 0 THEN g.gasLimit ELSE estimateGas(g),
        maxFeePerGas |-> gasParams.maxFeePerGas,
        maxPriorityFeePerGas |-> gasParams.maxPriorityFeePerGas]

\* dragonswap_swap and sailor_swap call gasService.estimateAndPriceGas.
EstimateAndPriceGas ==
    /\ gasInput.protocol # ""
    /\ ~gasPlan.made
    /\ gasPlan' = estimateAndPriceGas(gasInput)
    /\ UNCHANGED <<config, pc, tool, req, swapInfo, quotes, loc, approval,
                   exec, attempts, log, raised, result, escaped, route,
                   encoded, analysis, gasInput, subcalls, read, call, fetcher, getTokensCalls, tokenSource, allowanceOnChain, requests>>

\* The parameters as the two handlers pass them: dragonswap_swap passes
\* useApiCalldata and no isComplexRouting, sailor_swap the reverse; the
\* quote fields are those of the protocol's API.
InitGas ==
    /\ HandlersIdle
    /\ route = NoRoute
    /\ encoded = NoEncoded
    /\ allowanceOnChain = 0
    /\ requests = NoSwapRequests
    /\ fetcher = NoFetcher
    /\ getTokensCalls = NoTokenCalls
    /\ tokenSource = NoTokenSource
    /\ call = NoCall
    /\ subcalls = NoSubcalls
    /\ read = NoRead
    /\ gasPlan = NoGasPlan
    /\ \E protocol \in Dexes, hasQuote, flag \in BOOLEAN,
          gasLimit \in {0, 500000}, gasPrice \in {0, 30},
          estimate \in {0, 120000}, live \in {0, 180000},
          chain \in {1, 7, 25},
          priority \in {0, 3, 40}, maxFee \in {0, 5, 90} :
          /\ ~hasQuote => (~flag /\ estimate = 0 /\ priority = 0 /\ maxFee = 0)
          /\ gasInput =
               [protocol |-> protocol, gasLimit |-> gasLimit,
                gasPrice |-> gasPrice, hasQuote |-> hasQuote,
                useApiCalldata |-> (protocol = "dragonswap" /\ flag),
                isComplexRouting |-> (protocol = "sailor" /\ flag),
                gasUseEstimate |->
                   IF protocol = "dragonswap" THEN estimate ELSE 0,
                estimated_gas |-> IF protocol = "sailor" THEN estimate ELSE 0,
                apiMaxPriorityFeePerGas |-> priority,
                apiMaxFeePerGas |-> maxFee,
                liveEstimate |-> live, chainGasPrice |-> chain]

NextGas == EstimateAndPriceGas

SpecGas == InitGas /\ [][NextGas]_vars


(* ----------------------------- MulticallService ------------------------ *)
\* How a sub-call ends on the chain: it returns data that decodes, it
\* reverts, or it returns data that decodeFunctionResult rejects (an address
\* without code answers with empty data, some tokens answer symbol() with
\* bytes32).
SubcallOutcomes == {"ok", "reverted", "undecodable"}

\* What the chain holds for the two tokens and the account.
ChainValue(subcall) ==
    CASE subcall.functionName = "balanceOf" -> 5
      [] subcall.functionName = "allowance" -> 3
      [] subcall.functionName = "decimals" ->
            IF subcall.target = "tokenIn" THEN 6 ELSE 8
      [] subcall.functionName = "symbol" ->
            IF subcall.target = "tokenIn" THEN "USDC" ELSE "WBTC"
      [] OTHER -> IF subcall.target = "tokenIn" THEN "USD Coin" ELSE "Wrapped BTC"

createERC20Call_AllowFailure(tokenAddress, functionName) ==
    [target |-> tokenAddress, functionName |-> functionName,
     allowFailure |-> TRUE]

createERC20Call(tokenAddress, functionName) ==
    [target |-> tokenAddress, functionName |-> functionName,
     allowFailure |-> FALSE]

createERC20BalanceCall(tokenAddress) ==
    [target |-> tokenAddress, functionName |-> "balanceOf",
     allowFailure |-> FALSE]

createERC20AllowanceCall(tokenAddress) ==
    [target |-> tokenAddress, functionName |-> "allowance",
     allowFailure |-> FALSE]

\* The calls of getTokensInfo([tokenIn, tokenOut]).
TokensInfoCalls ==
    <<createERC20Call("tokenIn", "decimals"),
      createERC20Call("tokenIn", "symbol"),
      createERC20Call("tokenIn", "name"),
      createERC20Call("tokenOut", "decimals"),
      createERC20Call("tokenOut", "symbol"),
      createERC20Call("tokenOut", "name")>>

\* The calls of getSwapInfo.
SwapInfoCalls ==
    TokensInfoCalls \o <<createERC20BalanceCall("tokenIn"),
                         createERC20AllowanceCall("tokenIn")>>

\* batchCall: readContract of Multicall3.aggregate3, which reverts as a
\* whole when a sub-call without allowFailure reverts.
batchCall(calls, outcomes) ==
    IF \E i \in 1..Len(calls) :
          outcomes[i] = "reverted" /\ ~calls[i].allowFailure
    THEN [threw |-> TRUE, results |-> << >>]
    ELSE [threw |-> FALSE,
          results |-> [i \in 1..Len(calls) |->
                         [success |-> outcomes[i] # "reverted",
                          decodes |-> outcomes[i] = "ok",
                          value |-> ChainValue(calls[i])]]]

decodeERC20Result(res, functionName) ==
    IF ~res.success
    THEN [threw |-> TRUE, message |-> "Multicall failed", value |-> 0]
    ELSE IF ~res.decodes
    THEN [threw |-> TRUE, message |-> "decodeFunctionResult failed",
          value |-> 0]
    ELSE [threw |-> FALSE, message |-> "", value |-> res.value]

\* The defaults getTokensInfo sets for a token whose results do not decode.
DefaultTokenInfo ==
    [decimals |-> 18, symbol |-> "UNKNOWN", name |-> "Unknown Token"]

\* getTokensInfo for <<tokenIn, tokenOut>>: three results per token.
getTokensInfo(outcomes) ==
    LET b == batchCall(TokensInfoCalls, outcomes)
        d(i) == decodeERC20Result(b.results[i], TokensInfoCalls[i].functionName)
        token(k) ==
            IF \E i \in (3 * k + 1)..(3 * k + 3) : d(i).threw
            THEN DefaultTokenInfo
            ELSE [decimals |-> d(3 * k + 1).value,
                  symbol |-> d(3 * k + 2).value,
                  name |-> d(3 * k + 3).value]
    IN IF b.threw
       THEN [status |-> "threw", message |-> "aggregate3 reverted",
             info |-> << >>]
       ELSE [status |-> "returned", message |-> "",
             info |-> [tokenIn |-> token(0), tokenOut |-> token(1)]]

getTokenBasicInfo(outcomes) ==
    LET t == getTokensInfo(outcomes) IN
    IF t.status = "threw" THEN t
    ELSE [t EXCEPT !.info =
            [tokenInDecimals |-> t.info.tokenIn.decimals,
             tokenOutDecimals |-> t.info.tokenOut.decimals,
             tokenInSymbol |-> t.info.tokenIn.symbol,
             tokenOutSymbol |-> t.info.tokenOut.symbol]]

getSwapInfo(outcomes) ==
    LET b == batchCall(SwapInfoCalls, outcomes)
        d(i) == decodeERC20Result(b.results[i], SwapInfoCalls[i].functionName)
    IN IF b.threw
       THEN [status |-> "threw", message |-> "aggregate3 reverted",
             info |-> << >>]
       ELSE IF \E i \in 1..Len(SwapInfoCalls) : d(i).threw
       THEN [status |-> "threw", message |-> "Failed to get swap info",
             info |-> << >>]
       ELSE [status |-> "returned", message |-> "",
             info |-> [tokenInDecimals |-> d(1).value,
                       tokenInSymbol |-> d(2).value,
                       tokenInName |-> d(3).value,
                       tokenOutDecimals |-> d(4).value,
                       tokenOutSymbol |-> d(5).value,
                       tokenOutName |-> d(6).value,
                       balance |-> d(7).value,
                       allowance |-> d(8).value]]

\* validateSwapParameters and the legacy swap handlers read with getSwapInfo.
GetSwapInfo ==
    /\ subcalls # NoSubcalls
    /\ read.status = "none"
    /\ LET r == getSwapInfo(subcalls)
       IN read' = [by |-> "getSwapInfo", status |-> r.status,
                   message |-> r.message, calls |-> SwapInfoCalls,
                   info |-> r.info]
    /\ UNCHANGED <<config, pc, tool, req, swapInfo, quotes, loc, approval,
                   exec, attempts, log, raised, result, escaped, route,
                   encoded, analysis, gasInput, gasPlan, subcalls, call, fetcher, getTokensCalls, tokenSource, allowanceOnChain, requests>>

\* The quote tools and the arbitrage tool read with getTokenBasicInfo.
GetTokenBasicInfo ==
    /\ subcalls # NoSubcalls
    /\ read.status = "none"
    /\ LET r == getTokenBasicInfo(subcalls)
       IN read' = [by |-> "getTokenBasicInfo", status |-> r.status,
                   message |-> r.message, calls |-> TokensInfoCalls,
                   info |-> r.info]
    /\ UNCHANGED <<config, pc, tool, req, swapInfo, quotes, loc, approval,
                   exec, attempts, log, raised, result, escaped, route,
                   encoded, analysis, gasInput, gasPlan, subcalls, call, fetcher, getTokensCalls, tokenSource, allowanceOnChain, requests>>

InitRead ==
    /\ HandlersIdle
    /\ route = NoRoute
    /\ encoded = NoEncoded
    /\ allowanceOnChain = 0
    /\ requests = NoSwapRequests
    /\ fetcher = NoFetcher
    /\ getTokensCalls = NoTokenCalls
    /\ tokenSource = NoTokenSource
    /\ call = NoCall
    /\ gasInput = NoGasInput
    /\ gasPlan = NoGasPlan
    /\ subcalls \in [1..Len(SwapInfoCalls) -> SubcallOutcomes]
    /\ read = NoRead

NextRead == GetSwapInfo \/ GetTokenBasicInfo

SpecRead == InitRead /\ [][NextRead]_vars

(* --------------------------- swapParametersSchema ---------------------- *)
Digits == {"0", "1", "2", "3", "4", "5", "6", "7", "8", "9"}

\* /^0x[a-fA-F0-9]{40}$/.test(val)
isAddress(val) ==
    /\ Len(val) = 42
    /\ val[1] = "0"
    /\ val[2] = "x"
    /\ \A i \in 3..42 :
          val[i] \in Digits \cup {"a", "b", "c", "d", "e", "f",
                                  "A", "B", "C", "D", "E", "F"}

\* swapParametersSchema.tokenIn and .tokenOut.
tokenSchema(val) == Len(val) >= 1 /\ isAddress(val)

\* parseFloat on a sign, digits and at most one point: the longest numeric
\* prefix is read, and there is no number when it holds no digit.
parseFloat(val) ==
    LET signed == Len(val) >= 1 /\ val[1] \in {"-", "+"}
        body == IF signed THEN SubSeq(val, 2, Len(val)) ELSE val
        numeric(n) ==
            /\ \A i \in 1..n : body[i] \in Digits \cup {"."}
            /\ Cardinality({i \in 1..n : body[i] = "."}) <= 1
        n == CHOOSE k \in 0..Len(body) :
                numeric(k) /\ \A j \in 0..Len(body) : numeric(j) => j <= k
        prefix == SubSeq(body, 1, n)
    IN [isNaN |-> \A i \in 1..n : prefix[i] \notin Digits,
        negative |-> signed /\ val[1] = "-",
        nonZero |-> \E i \in 1..n : prefix[i] \in Digits \ {"0"}]

\* swapParametersSchema.amountIn.
amountInSchema(val) ==
    /\ Len(val) >= 1
    /\ LET num == parseFloat(val)
       IN ~num.isNaN /\ num.nonZero /\ ~num.negative

\* swapParametersSchema.slippage, a per cent number.
slippageSchema(slippage) ==
    slippage.given => slippage.value >= 0 /\ slippage.value <= 100

\* The parameter schema dragonswap_swap is registered with.
swapParametersSchema(c) ==
    /\ tokenSchema(c.tokenIn)
    /\ tokenSchema(c.tokenOut)
    /\ amountInSchema(c.amountIn)
    /\ slippageSchema(c.slippage)

\* The server answers a call that fails the registered schema with an
\* invalid-parameters error and does not call the handler.
SchemaRejects ==
    /\ call.stage = "received"
    /\ ~swapParametersSchema(call)
    /\ call' = [call EXCEPT !.stage = "rejected"]
    /\ UNCHANGED <<config, pc, tool, req, swapInfo, quotes, loc, approval,
                   exec, attempts, log, raised, result, escaped, route,
                   encoded, analysis, gasInput, gasPlan, subcalls, read, fetcher, getTokensCalls, tokenSource, allowanceOnChain, requests>>

\* The handler of a call that passed the schema, with the protocol enabled
\* and a wallet account: validateSwapParameters starts with the batched
\* chain read for tokenIn and tokenOut.
HandlerReads ==
    /\ call.stage = "received"
    /\ swapParametersSchema(call)
    /\ call' = [call EXCEPT !.stage = "handler", !.chainRead = TRUE]
    /\ UNCHANGED <<config, pc, tool, req, swapInfo, quotes, loc, approval,
                   exec, attempts, log, raised, result, escaped, route,
                   encoded, analysis, gasInput, gasPlan, subcalls, read, fetcher, getTokensCalls, tokenSource, allowanceOnChain, requests>>

InitSchema ==
    /\ HandlersIdle
    /\ route = NoRoute
    /\ encoded = NoEncoded
    /\ allowanceOnChain = 0
    /\ requests = NoSwapRequests
    /\ fetcher = NoFetcher
    /\ getTokensCalls = NoTokenCalls
    /\ tokenSource = NoTokenSource
    /\ gasInput = NoGasInput
    /\ gasPlan = NoGasPlan
    /\ subcalls = NoSubcalls
    /\ read = NoRead
    /\ LET addresses == {TokenA, TokenB, SubSeq(TokenA, 1, 41),
                         <<"0", "x">> \o Repeat("g", 40), << >>}
           amounts == {<<"1">>, <<"0">>, <<"-", "1">>, <<"0", ".", "5">>,
                       <<"0", ".", "0">>, <<"a", "b", "c">>, << >>}
           slippages == {[given |-> FALSE, value |-> 0]} \cup
                        {[given |-> TRUE, value |-> v] :
                            v \in {-1, 0, 2, 100, 101}}
       IN \E tokenIn \in addresses, tokenOut \in addresses,
             amountIn \in amounts, slippage \in slippages :
             call = [stage |-> "received", tokenIn |-> tokenIn,
                     tokenOut |-> tokenOut, amountIn |-> amountIn,
                     slippage |-> slippage, chainRead |-> FALSE]

NextSchema == SchemaRejects \/ HandlerReads

SpecSchema == InitSchema /\ [][NextSchema]_vars

(* ------------------------- the spread, by itself ----------------------- *)
\* Outputs the two quotes are given, in base units of tokenOut.
OutputSamples == {0, 1, 99, 100, 101, 102, 200, 204}

\* The arbitrage handler with both quotes settled and fulfilled.
InitSpread ==
    /\ config = [p \in Dexes |-> TRUE]
    /\ pc = "quote"
    /\ tool = ArbitrageTool
    /\ \E m \in 0..MaxMinProfit, dryRun \in BOOLEAN :
          req = [NoRequest EXCEPT !.amountIn = 1, !.dryRun = dryRun,
                                  !.minProfitPercent = m]
    /\ swapInfo = [NoSwapInfo EXCEPT !.source = "basic"]
    /\ \E a, b \in OutputSamples :
          quotes = [dragonswap |-> QuoteFulfilled(a, FALSE, 1),
                    sailor |-> QuoteFulfilled(b, FALSE, 1)]
    /\ loc = NoLoc
    /\ approval = NoApproval
    /\ exec = NoExec
    /\ attempts = << >>
    /\ log = << >>
    /\ raised = << >>
    /\ result = NoResult
    /\ escaped = FALSE
    /\ analysis = NoAnalysis
    /\ route = NoRoute
    /\ encoded = NoEncoded
    /\ allowanceOnChain = 0
    /\ requests = NoSwapRequests
    /\ fetcher = NoFetcher
    /\ getTokensCalls = NoTokenCalls
    /\ tokenSource = NoTokenSource
    /\ call = NoCall
    /\ subcalls = NoSubcalls
    /\ read = NoRead
    /\ gasInput = NoGasInput
    /\ gasPlan = NoGasPlan

NextSpread == ArbitrageQuotes

SpecSpread == InitSpread /\ [][NextSpread]_vars

(* ----------------------------- properties ------------------------------ *)
IsApprove(a) == a.kind = "approve"
IsSwap(a) == a.kind = "swap"
ApprovalAttempts == SelectSeq(attempts, IsApprove)
SwapAttempts == SelectSeq(attempts, IsSwap)

\* The quote of `dex` was rejected for the given reason.
QuoteFailed(dex, failure) ==
    quotes[dex].status = "rejected" /\ quotes[dex].failure = failure

\* C1: whenever the batched read returned a balance below amountIn in base
\* units, the invocation has ended with the insufficient-balance result,
\* which carries amountIn as the required and the balance as the available
\* amount, and no transaction (approval or swap) was submitted.
C1_InsufficientBalanceRefused ==
    (/\ swapInfo.source = "swap"
     /\ swapInfo.balance < req.amountIn * TenPow(swapInfo.tokenInDecimals))
    => /\ pc = "done"
       /\ result.kind = "insufficient_balance"
       /\ result.required = [whole |-> req.amountIn, frac |-> 0,
                             digits |-> swapInfo.tokenInDecimals]
       /\ result.available =
            [whole |-> swapInfo.balance \div TenPow(swapInfo.tokenInDecimals),
             frac |-> swapInfo.balance % TenPow(swapInfo.tokenInDecimals),
             digits |-> swapInfo.tokenInDecimals]
       /\ attempts = << >>

C1_Witness ==
    /\ pc = "done"
    /\ result.kind = "insufficient_balance"
    /\ swapInfo.tokenInDecimals = 1
    /\ swapInfo.balance = 9
    /\ attempts = << >>

\* C2: a step of the approval stage taken with currentAllowance >=
\* amountInParsed (equality included) submits nothing, starts no receipt
\* wait, reports success, and leaves the allowance and the required amount
\* as they were, so that repeating it gives the same.
C2_SufficientAllowanceNoOp ==
    [][(pc = "approval" /\ loc.currentAllowance >= loc.amountInParsed)
       => /\ attempts' = attempts
          /\ log' = log
          /\ pc' # "approve_wait"
          /\ approval'.success
          /\ approval'.confirmations = 0
          /\ loc' = loc
          /\ swapInfo' = swapInfo]_vars

C2_Witness ==
    /\ approval.status = "not_needed"
    /\ approval.success
    /\ loc.amountInParsed > 0
    /\ loc.currentAllowance = loc.amountInParsed
    /\ attempts = << >>

\* C3: once the approval stage has acted on currentAllowance <
\* amountInParsed, exactly one approval was submitted, for exactly
\* amountInParsed and to the spender of the swap; none is submitted
\* otherwise; and the stage reports success only after that transaction
\* has 2 confirmations.
C3_OneExactApprovalConfirmedTwice ==
    /\ Len(ApprovalAttempts) <= 1
    /\ \A i \in 1..Len(ApprovalAttempts) :
          /\ loc.currentAllowance < loc.amountInParsed
          /\ ApprovalAttempts[i].amount = loc.amountInParsed
          /\ ApprovalAttempts[i].to = loc.spenderAddress
    /\ (/\ loc.currentAllowance < loc.amountInParsed
        /\ \/ approval.status # "none"
           \/ pc \in {"approve_wait", "gas", "simulate", "submit",
                      "submit_fallback", "wait"})
       => Len(ApprovalAttempts) = 1
    /\ (approval.success /\ Len(ApprovalAttempts) = 1)
       => approval.confirmations >= 2

C3_Witness ==
    /\ approval.success
    /\ approval.status = "confirmed"
    /\ Len(ApprovalAttempts) = 1
    /\ ApprovalAttempts[1].amount = 10
    /\ loc.currentAllowance = 9

\* C4: in a request that needed an approval, every swap submission is
\* preceded by the confirmation of the approval, and no swap is submitted
\* (nor about to be) while the approval is pending.
C4_ApprovalConfirmedBeforeSwap ==
    /\ \A i \in 1..Len(log) :
          (log[i] = "swap_submitted" /\ ApprovalAttempts # << >>)
          => \E j \in 1..(i - 1) : log[j] = "approval_confirmed"
    /\ (SwapAttempts # << >> /\ ApprovalAttempts # << >>)
       => approval.status = "confirmed" /\ approval.confirmations >= 1
    /\ approval.status = "pending"
       => SwapAttempts = << >> /\ pc = "approve_wait"

C4_Witness ==
    /\ log = <<"approval_submitted", "approval_confirmed", "swap_submitted">>
    /\ Len(ApprovalAttempts) = 1
    /\ Len(SwapAttempts) = 1
    /\ SwapAttempts[1].accepted

C6_TimeoutNeverUnsupportedPair ==
    (/\ tool \in SwapTools \cup QuoteTools
     /\ QuoteFailed(ProtocolOf(tool), "timeout")
     /\ pc = "done")
    => result.kind # "unsupported_pair"

C6_Witness ==
    /\ tool = "sailor_swap"
    /\ QuoteFailed("sailor", "timeout")
    /\ req.minGiven
    /\ result.kind = "unsupported_pair"
    /\ result.message = "Sailor API timeout after <timeoutMs>ms"

\* The routing service of `dex` was unavailable (timeout or HTTP error).
Unavailable(dex) == QuoteFailed(dex, "timeout") \/ QuoteFailed(dex, "unavailable")

\* C7: when the routing service was unavailable (and, in the arbitrage
\* handler, both quote calls have settled), an invocation without a
\* caller-supplied minAmountOut has ended with an error, derived no minimum
\* and submitted nothing; one with a caller-supplied minAmountOut submits,
\* if anything, the direct-path router swap with that minimum unchanged.
C7_FallbackOnlyWithCallerMinimum ==
    \A dex \in Dexes :
       (/\ tool \in Tools
        /\ \/ tool = ArbitrageTool /\ pc # "quote"
           \/ tool # ArbitrageTool /\ ProtocolOf(tool) = dex
        /\ Unavailable(dex))
       => /\ ~req.minGiven
             => /\ pc = "done"
                /\ result.kind \in {"error", "unsupported_pair", "no_quotes",
                                    "one_dex_available"}
                /\ ~loc.minSet
                /\ loc.minAmountOutParsed = 0
                /\ attempts = << >>
          /\ req.minGiven
             => /\ loc.minAmountOut = req.minAmountOut * BpsBase
                /\ ~loc.useApiCalldata
                /\ \A i \in 1..Len(SwapAttempts) :
                      /\ loc.path = "direct"
                      /\ SwapAttempts[i].fn = "swapExactTokensForTokens"
                      /\ SwapAttempts[i].to = ROUTER[dex]
                      /\ SwapAttempts[i].minOut =
                           req.minAmountOut * TenPow(swapInfo.tokenOutDecimals)

C7_Witness ==
    /\ tool = "dragonswap_swap"
    /\ QuoteFailed("dragonswap", "timeout")
    /\ req.minGiven
    /\ Len(SwapAttempts) = 1
    /\ SwapAttempts[1].minOut = 10
    /\ result.kind = "success"

\* C8: one invocation makes at most one swap submission attempt.
C8_AtMostOneSwapSubmission == Len(SwapAttempts) <= 1

C8_Witness ==
    /\ tool = "dragonswap_swap_legacy"
    /\ Len(SwapAttempts) = 2
    /\ ~SwapAttempts[1].accepted
    /\ SwapAttempts[1].fn = "multicall"
    /\ SwapAttempts[2].fn = "sendTransaction"

\* What both executors guarantee for the three classes, whatever made the
\* call fail.
ExecutorClasses ==
    /\ exec.type \in {"", "transaction_reverted", "execution_failed"}
    /\ exec.success <=> exec.type = ""
    /\ exec.type = ""
       <=> (exec.submitted /\ exec.receipt = "success")
    /\ exec.type = "" => exec.hash /\ exec.hasReceipt
    /\ exec.type = "transaction_reverted" <=> exec.receipt = "reverted"
    /\ exec.type = "transaction_reverted" => exec.hash /\ exec.hasReceipt
    /\ exec.type = "execution_failed" => ~exec.hash /\ ~exec.hasReceipt
    /\ result.kind = (IF exec.success THEN "success" ELSE exec.type)

StageRank(p) ==
    CASE p \in {"idle", "entry"} -> 0
      [] p = "validate" -> 1
      [] p = "quote" -> 2
      [] p \in {"allowance", "approval", "approve_wait"} -> 3
      [] p = "gas" -> 4
      [] p \in {"simulate", "submit", "submit_fallback", "wait"} -> 5
      [] OTHER -> 6

\* A step of a swap request keeps the stage order.
StageStep ==
    tool \in SwapTools
    => /\ pc' \notin {"done", "idle"}
          => StageRank(pc') \in {StageRank(pc), StageRank(pc) + 1}
       /\ (ApprovalAttempts' # ApprovalAttempts /\ pc' # "idle")
          => StageRank(pc) = 3
       /\ (SwapAttempts' # SwapAttempts /\ pc' # "idle") => StageRank(pc) = 5
       /\ pc = "done" => (pc' = "idle" /\ Len(attempts') = 0)

\* What holds of a swap request at each stage.
StageState ==
    tool \in SwapTools
    => /\ (SwapAttempts # << >> \/ StageRank(pc) = 5)
          => /\ swapInfo.source = "swap"
             /\ swapInfo.balance >= loc.amountInParsed
             /\ loc.amountInParsed
                  = req.amountIn * TenPow(swapInfo.tokenInDecimals)
             /\ quotes[ProtocolOf(tool)].status # "none"
             /\ loc.minSet
             /\ approval.success
             /\ approval.status \in {"not_needed", "confirmed"}
       /\ StageRank(pc) \in 3..5 => quotes[ProtocolOf(tool)].status # "none"
       /\ StageRank(pc) \in 2..5 => swapInfo.source = "swap"
       /\ (result.kind \notin {"none", "success"}) => pc = "done"

\* C11: in a swap request the handler moves from a stage only to the next
\* one (validation, quote, approval, gas planning, execution) or to its
\* end; it ends as soon as a stage answered with a failure and runs nothing
\* after that; and a swap was submitted only after validation found the
\* balance sufficient, the quote call settled, the approval stage reported
\* success and gas planning was passed.
C11_StagesInOrder == []StageState /\ [][StageStep]_vars

C11_Witness ==
    /\ tool = "sailor_swap"
    /\ pc = "done"
    /\ result.kind = "success"
    /\ Len(ApprovalAttempts) = 1
    /\ Len(SwapAttempts) = 1
    /\ quotes["sailor"].status = "fulfilled"

HexValue(c) ==
    CASE c \in {"a", "A"} -> 10 [] c \in {"b", "B"} -> 11
      [] c \in {"c", "C"} -> 12 [] c \in {"d", "D"} -> 13
      [] c \in {"e", "E"} -> 14 [] c \in {"f", "F"} -> 15
      [] c = "N" -> -1
      [] OTHER -> CHOOSE v \in 0..9 : HexChars[v + 1] = c

\* The big-endian value of a run of hex digits.
RECURSIVE HexToNat(_)
HexToNat(str) ==
    IF Len(str) = 0 THEN 0
    ELSE 16 * HexToNat(SubSeq(str, 1, Len(str) - 1)) + HexValue(str[Len(str)])

\* The bytes of an address, as the values of its 40 hex digits.
TokenBytes(token) == [i \in 1..40 |-> HexValue(token[i + 2])]

HopSize == 40 + FeeHexDigits

\* The path read as token0, fee0, token1, fee1, ...: 40 digits a token,
\* FeeHexDigits a fee, after the leading "0x".
DecodedToken(path, k) ==
    [i \in 1..40 |-> HexValue(path[2 + k * HopSize + i])]

DecodedFee(path, k) ==
    HexToNat(SubSeq(path, 2 + k * HopSize + 41, 2 + (k + 1) * HopSize))

FeeCeiling == HexToNat(Repeat("f", FeeHexDigits))

WellFormed(r) ==
    /\ r.given
    /\ Len(r.hops) >= 1
    /\ \A i \in 1..Len(r.hops) :
          /\ r.hops[i].token_in \in Tokens
          /\ r.hops[i].token_out \in Tokens
          /\ r.hops[i].fee.kind # "none"
          /\ r.hops[i].fee.value \in 1..FeeCeiling
          /\ i > 1 => r.hops[i].token_in = r.hops[i - 1].token_out

\* C13: for a non-empty hop list whose hops are chained, carry both tokens
\* and a fee in 1..2^24-1, encodeV3Path (either version) returns "0x",
\* 40 digits per token and 6 digits per fee, and reading it as token0, fee0,
\* token1, ... gives the bytes of the tokens and the values of the fees of
\* the hops, in order.
C13_PathRoundTrip ==
    (encoded.by # "none" /\ WellFormed(route))
    => /\ ~encoded.threw
       /\ Len(encoded.path) = 2 + 40 + Len(route.hops) * HopSize
       /\ SubSeq(encoded.path, 1, 2) = <<"0", "x">>
       /\ DecodedToken(encoded.path, 0) = TokenBytes(route.hops[1].token_in)
       /\ \A k \in 1..Len(route.hops) :
             /\ DecodedToken(encoded.path, k)
                  = TokenBytes(route.hops[k].token_out)
             /\ DecodedFee(encoded.path, k - 1) = route.hops[k].fee.value

C13_Witness ==
    /\ encoded.by = "refactored"
    /\ WellFormed(route)
    /\ Len(route.hops) = 2
    /\ route.hops[1].fee.value = 3000
    /\ route.hops[2].fee.value = 10000
    /\ route.hops[1].token_in = TokenA
    /\ route.hops[1].token_out = TokenB
    /\ ~encoded.threw

Malformed(r) ==
    \/ ~r.given
    \/ Len(r.hops) = 0
    \/ \E i \in 1..Len(r.hops) :
          r.hops[i].fee.kind = "none" \/ r.hops[i].token_out = << >>

\* C14: encodeV3Path (either version) throws and returns no path when the
\* hop list is missing or empty and when a hop has no fee or no tokenOut.
C14_MalformedRouteThrows ==
    (encoded.by # "none" /\ Malformed(route))
    => (encoded.threw /\ encoded.path = << >>)

C14_Witness ==
    /\ encoded.by = "legacy"
    /\ route.given
    /\ Len(route.hops) = 1
    /\ route.hops[1].fee = NoFee
    /\ route.hops[1].token_in = TokenA
    /\ route.hops[1].token_out = TokenB
    /\ ~encoded.threw
    /\ SubSeq(encoded.path, 43, 48) = <<"0", "0", "0", "N", "a", "N">>

SingleHop3000 ==
    [given |-> TRUE,
     hops |-> <<[token_in |-> TokenA, token_out |-> TokenB,
                 fee |-> [kind |-> "number", value |-> 3000]]>>]

\* C15 as the specification states it: the fee 3000 of the single hop is
\* written 002710.
C15_Fee3000Is002710 ==
    (encoded.by = "refactored" /\ route = SingleHop3000)
    => encoded.path = <<"0", "x">> \o Repeat("a", 40)
                      \o <<"0", "0", "2", "7", "1", "0">> \o Repeat("b", 40)

\* C15: for the single hop {tokenIn: 0xAA.., tokenOut: 0xBB.., fee: 3000}
\* encodeV3Path returns 0x, the digits of 0xAA.. in lower case, the fee field
\* 000bb8 (3000 = 0xbb8) and the digits of 0xBB...
C15_Fee3000Is000bb8 ==
    (encoded.by = "refactored" /\ route = SingleHop3000)
    => encoded.path = <<"0", "x">> \o Repeat("a", 40)
                      \o <<"0", "0", "0", "b", "b", "8">> \o Repeat("b", 40)

C15_Witness ==
    /\ encoded.by = "refactored"
    /\ route = SingleHop3000
    /\ ~encoded.threw
    /\ Len(encoded.path) = 88

(* --------------------- properties of the arbitrage --------------------- *)
\* The two quoted outputs in base units of tokenOut.
OutputOf(dex) ==
    IF dex = "dragonswap"
    THEN quotes["dragonswap"].out * TenPow(swapInfo.tokenOutDecimals)
    ELSE quotes["sailor"].out

MaxOutput ==
    IF OutputOf("dragonswap") > OutputOf("sailor")
    THEN OutputOf("dragonswap") ELSE OutputOf("sailor")

MinOutput ==
    IF OutputOf("dragonswap") > OutputOf("sailor")
    THEN OutputOf("sailor") ELSE OutputOf("dragonswap")

BothFulfilled == \A dex \in Dexes : quotes[dex].status = "fulfilled"
BothSettled == \A dex \in Dexes : quotes[dex].status # "none"

\* C16: when both quotes came and the spread (max - min) / min, in percent,
\* is strictly below the caller's minimum, the arbitrage handler has ended
\* with the not-executed analysis, which is no error, and has submitted no
\* approval and no swap.
C16_BelowMinimumNothingSubmitted ==
    (/\ tool = ArbitrageTool
     /\ pc # "quote"
     /\ BothFulfilled
     /\ MinOutput > 0
     /\ (MaxOutput - MinOutput) * 100 < req.minProfitPercent * MinOutput)
    => /\ pc = "done"
       /\ result.kind = "not_executed"
       /\ result.caughtAt = "none"
       /\ raised = << >>
       /\ attempts = << >>
       /\ approval = NoApproval
       /\ exec = NoExec

C16_Witness ==
    /\ tool = ArbitrageTool
    /\ pc = "done"
    /\ BothFulfilled
    /\ OutputOf("dragonswap") = 1
    /\ OutputOf("sailor") = 1
    /\ req.minProfitPercent = 1
    /\ ~req.dryRun
    /\ result.kind = "not_executed"

\* C17 as the specification states it: the computed spread is
\* (max - min) / min * 10000, and 200 for the outputs 102 and 100.
C17_SpreadInBasisPoints ==
    analysis.made
    => /\ analysis.profitPercent.den = MinOutput
       /\ analysis.profitPercent.num = (MaxOutput - MinOutput) * 10000
       /\ (MaxOutput = 102 /\ MinOutput = 100)
          => analysis.profitPercent.num = 200 * analysis.profitPercent.den

\* C17: the spread the arbitrage handler computes is
\* (max(outA, outB) - min(outA, outB)) / min(outA, outB) * 100, a percentage,
\* of the two outputs in the same unit of tokenOut; for the outputs 102 and
\* 100 it is 2 (per cent, which is 200 basis points).
C17_SpreadInPercent ==
    analysis.made
    => /\ analysis.betterOutput = MaxOutput
       /\ analysis.worseOutput = MinOutput
       /\ analysis.profitPercent.den = MinOutput
       /\ analysis.profitPercent.num = (MaxOutput - MinOutput) * 100
       /\ (MaxOutput = 102 /\ MinOutput = 100)
          => analysis.profitPercent.num = 2 * analysis.profitPercent.den

C17_Witness ==
    /\ analysis.made
    /\ OutputOf("dragonswap") = 102
    /\ OutputOf("sailor") = 100
    /\ analysis.profitPercent = [num |-> 200, den |-> 100]
    /\ req.minProfitPercent = 1

\* C18: whenever the arbitrage handler reports (dry run) or executes an
\* opportunity, the DEX it buys on, which is the DEX every transaction of
\* the invocation goes to, quoted the lower output and the DEX it names for
\* the sale quoted the higher one (the same one when the outputs are equal).
C18_BuyOnLowerOutput ==
    (tool = ArbitrageTool /\ (result.kind = "dry_run" \/ loc.executeDex # ""))
    => /\ analysis.made
       /\ analysis.buyDex \in Dexes
       /\ analysis.sellDex = OtherDex(analysis.buyDex)
       /\ OutputOf(analysis.buyDex) = MinOutput
       /\ OutputOf(analysis.sellDex) = MaxOutput
       /\ loc.executeDex # "" => loc.executeDex = analysis.buyDex
       /\ \A i \in 1..Len(attempts) : attempts[i].to = ROUTER[analysis.buyDex]

C18_Witness ==
    /\ tool = ArbitrageTool
    /\ OutputOf("dragonswap") = 10
    /\ OutputOf("sailor") = 1
    /\ analysis.buyDex = "sailor"
    /\ analysis.sellDex = "dragonswap"
    /\ Len(SwapAttempts) = 1
    /\ SwapAttempts[1].to = ROUTER["sailor"]

\* What the arbitrage handler did with the quotes it has.
SettledState ==
    tool = ArbitrageTool
    => /\ (pc # "quote" /\ \E dex \in Dexes : quotes[dex].status # "none")
          => BothSettled
       /\ analysis.made => BothFulfilled
       /\ (attempts # << >> \/ loc.executeDex # ""
           \/ result.kind \in {"not_executed", "dry_run"})
          => (BothFulfilled /\ analysis.made)
       /\ (pc # "quote" /\ BothSettled /\ ~BothFulfilled)
          => /\ pc = "done"
             /\ result.kind \in {"no_quotes", "one_dex_available"}
             /\ result.kind = "no_quotes"
                <=> \A dex \in Dexes : quotes[dex].status = "rejected"
             /\ ~analysis.made
             /\ attempts = << >>

\* The handler goes on from its quote stage only with both calls settled,
\* and a call that settled stays as it settled.
SettledStep ==
    (tool = ArbitrageTool /\ pc = "quote")
    => /\ pc' # "quote" => BothSettled
       /\ \A dex \in Dexes :
             (quotes[dex].status # "none" /\ pc' # "idle")
             => quotes'[dex] = quotes[dex]

\* C19: the two quote calls of the arbitrage handler settle in either
\* order; the handler goes on only when both have settled, also when one of
\* them failed; it analyses and executes only with both fulfilled, and with
\* one or both rejected it ends with a diagnostic and submits nothing.
C19_BothQuotesAwaited == []SettledState /\ [][SettledStep]_vars

C19_Witness ==
    /\ tool = ArbitrageTool
    /\ pc = "done"
    /\ result.kind = "no_quotes"
    /\ raised = <<errorMessage("sailor", "timeout"),
                  errorMessage("dragonswap", "unavailable")>>
    /\ attempts = << >>

\* C20: when the arbitrage handler has executed and the buy transaction was
\* confirmed, a second swap, on the other DEX, has been submitted.
C20_SellLegFollowsBuyLeg ==
    (tool = ArbitrageTool /\ pc = "done" /\ exec.success)
    => /\ Len(SwapAttempts) = 2
       /\ SwapAttempts[2].to = ROUTER[analysis.sellDex]

C20_Witness ==
    /\ tool = ArbitrageTool
    /\ pc = "done"
    /\ exec.success
    /\ result.kind = "success"
    /\ Len(SwapAttempts) = 1
    /\ SwapAttempts[1].to = ROUTER[analysis.buyDex]

\* C21: an invocation of execute_arbitrage_opportunity with dryRun = true
\* submits no approval and no swap, chooses no DEX to execute on and never
\* reaches the approval, gas or execution stage, whatever the two quote
\* calls settle to.
C21_DryRunSubmitsNothing ==
    (tool = ArbitrageTool /\ req.dryRun)
    => /\ attempts = << >>
       /\ log = << >>
       /\ approval = NoApproval
       /\ exec = NoExec
       /\ loc.executeDex = ""
       /\ StageRank(pc) \notin {1, 3, 4, 5}
       /\ result.kind \notin {"success", "transaction_reverted",
                              "execution_failed", "approval_failed"}

C21_Witness ==
    /\ tool = ArbitrageTool
    /\ req.dryRun
    /\ pc = "done"
    /\ result.kind = "dry_run"
    /\ OutputOf("dragonswap") = 10
    /\ OutputOf("sailor") = 1
    /\ attempts = << >>

(* -------------------------- properties of gas -------------------------- *)
\* The gas estimate the quote supplies, and the buffer added to it.
QuoteGasEstimate ==
    IF gasInput.protocol = "dragonswap" THEN gasInput.gasUseEstimate
    ELSE gasInput.estimated_gas

QuoteGasBuffer ==
    IF gasInput.protocol = "dragonswap" THEN ApiGasBuffer ELSE SailorGasBuffer

\* C22: the gas limit is the caller's override if given; otherwise the
\* quote's estimate plus the buffer if the quote supplies one; otherwise the
\* live estimate; otherwise, when estimation fails, the protocol's fallback
\* constant.
C22_GasLimitPrecedence ==
    gasPlan.made
    => gasPlan.estimatedGas =
          IF gasInput.gasLimit # 0 THEN gasInput.gasLimit
          ELSE IF gasInput.hasQuote /\ QuoteGasEstimate # 0
          THEN QuoteGasEstimate + QuoteGasBuffer
          ELSE IF gasInput.liveEstimate # 0 THEN gasInput.liveEstimate
          ELSE IF gasInput.protocol = "sailor" THEN SailorFallbackGas
          ELSE DragonSwapFallbackGas

C22_Witness ==
    /\ gasPlan.made
    /\ gasInput.protocol = "sailor"
    /\ gasInput.gasLimit = 0
    /\ gasInput.hasQuote
    /\ ~gasInput.isComplexRouting
    /\ gasInput.estimated_gas = 120000
    /\ gasInput.liveEstimate = 180000
    /\ gasPlan.estimatedGas = SailorSingleHopGas

\* The gas price the fees are derived from.
CurrentGasPrice ==
    IF gasInput.gasPrice # 0 THEN gasInput.gasPrice
    ELSE gasInput.chainGasPrice

\* C23 as the specification states it: each fee parameter is the quote's
\* value when the quote supplies it, otherwise price / 10 and price * 2.
C23_FeesFromQuoteOrPrice ==
    gasPlan.made
    => /\ gasPlan.maxPriorityFeePerGas =
             IF gasInput.apiMaxPriorityFeePerGas # 0
             THEN gasInput.apiMaxPriorityFeePerGas
             ELSE CurrentGasPrice \div 10
       /\ gasPlan.maxFeePerGas =
             IF gasInput.apiMaxFeePerGas # 0 THEN gasInput.apiMaxFeePerGas
             ELSE CurrentGasPrice * 2

\* C23: maxPriorityFeePerGas is the quote's value when the quote supplies
\* it and otherwise price / 10 (integer division); maxFeePerGas is the
\* quote's value when supplied, otherwise twice the quote's
\* maxPriorityFeePerGas when that is supplied, otherwise price * 2; price is
\* the caller's gasPrice if given and the chain's gas price if not.
C23_FeesFromQuoteThenPriorityThenPrice ==
    gasPlan.made
    => /\ gasPlan.maxPriorityFeePerGas =
             IF gasInput.apiMaxPriorityFeePerGas # 0
             THEN gasInput.apiMaxPriorityFeePerGas
             ELSE CurrentGasPrice \div 10
       /\ gasPlan.maxFeePerGas =
             IF gasInput.apiMaxFeePerGas # 0 THEN gasInput.apiMaxFeePerGas
             ELSE IF gasInput.apiMaxPriorityFeePerGas # 0
             THEN gasInput.apiMaxPriorityFeePerGas * 2
             ELSE CurrentGasPrice * 2

C23_Witness ==
    /\ gasPlan.made
    /\ gasInput.hasQuote
    /\ gasInput.apiMaxPriorityFeePerGas = 40
    /\ gasInput.apiMaxFeePerGas = 0
    /\ gasInput.gasPrice = 0
    /\ gasInput.chainGasPrice = 25
    /\ gasPlan.maxPriorityFeePerGas = 40
    /\ gasPlan.maxFeePerGas = 80

(* ---------------------- properties of minAmountOut --------------------- *)
\* The minimum the statement gives for a quoted output of q base units.
StatedMinAmountOut(q, slippageBps) ==
    LET used == IF q < SmallOutputWei /\ slippageBps < MinSmallSlippageBps
                THEN MinSmallSlippageBps ELSE slippageBps
    IN (q * (BpsBase - used)) \div BpsBase

\* The handler derived minAmountOut from the quote of its own DEX.
MinFromQuote ==
    /\ tool \in SwapTools
    /\ ~req.minGiven
    /\ loc.minSet
    /\ quotes[ProtocolOf(tool)].status = "fulfilled"
    /\ pc \in {"allowance", "approval"}

\* C24: without a caller minAmountOut, the minimum derived from a quote of
\* Q base units is Q * (10000 - s) / 10000, with s raised to at least 500
\* when Q is below the wei threshold, on every DEX pipeline, and never
\* exceeds Q.
C24_MinAmountOutWidenedWhenSmall ==
    MinFromQuote
    => /\ loc.minAmountOutParsed =
             StatedMinAmountOut(OutputOf(ProtocolOf(tool)), DefaultSlippageBps)
       /\ loc.minAmountOutParsed <= OutputOf(ProtocolOf(tool))

C24_Witness ==
    /\ MinFromQuote
    /\ tool = "dragonswap_swap"
    /\ OutputOf("dragonswap") = 10
    /\ loc.minAmountOutParsed = 10

(* ------------------- properties of the batched read -------------------- *)
\* The sub-calls whose value the reader's answer carries, and that value.
ReturnedCalls ==
    IF read.by = "getSwapInfo" THEN 1..8 ELSE {1, 2, 4, 5}

ReturnedValue(i) ==
    IF read.by = "getSwapInfo"
    THEN CASE i = 1 -> read.info.tokenInDecimals
           [] i = 2 -> read.info.tokenInSymbol
           [] i = 3 -> read.info.tokenInName
           [] i = 4 -> read.info.tokenOutDecimals
           [] i = 5 -> read.info.tokenOutSymbol
           [] i = 6 -> read.info.tokenOutName
           [] i = 7 -> read.info.balance
           [] OTHER -> read.info.allowance
    ELSE CASE i = 1 -> read.info.tokenInDecimals
           [] i = 2 -> read.info.tokenInSymbol
           [] i = 4 -> read.info.tokenOutDecimals
           [] OTHER -> read.info.tokenOutSymbol

FailedSubcalls == {i \in 1..Len(read.calls) : subcalls[i] # "ok"}

\* C25: every sub-call is submitted with allowFailure = true, and when one
\* sub-call fails the batch is not aborted: the reader returns, with every
\* other field decoded from the chain.
C25_FailedSubcallDoesNotAbortBatch ==
    read.status # "none"
    => /\ \A i \in 1..Len(read.calls) : read.calls[i].allowFailure
       /\ Cardinality(FailedSubcalls) = 1
          => /\ read.status = "returned"
             /\ \A i \in ReturnedCalls \ FailedSubcalls :
                   ReturnedValue(i) = ChainValue(read.calls[i])

C25_Witness ==
    /\ read.by = "getSwapInfo"
    /\ FailedSubcalls = {6}
    /\ subcalls[6] = "reverted"
    /\ read.status = "threw"
    /\ read.message = "aggregate3 reverted"

\* C26: a reader that returns token information returns only values read
\* from the chain; a value that could not be obtained is a failure of the
\* read, never a default.
C26_NoInventedDefaults ==
    read.status = "returned"
    => \A i \in ReturnedCalls :
          /\ subcalls[i] = "ok"
          /\ ReturnedValue(i) = ChainValue(read.calls[i])

C26_Witness ==
    /\ read.by = "getTokenBasicInfo"
    /\ read.status = "returned"
    /\ FailedSubcalls = {2}
    /\ subcalls[2] = "undecodable"
    /\ read.info.tokenInDecimals = DefaultTokenInfo.decimals
    /\ read.info.tokenInSymbol = DefaultTokenInfo.symbol
    /\ ChainValue(read.calls[1]) = 6

(* ------------------ properties of the approval receipt ----------------- *)
\* C27: an approval transaction that reverted on-chain and a confirmation
\* wait that timed out both end the approval step as failures, and the two
\* failures differ: the first is a failure of a mined transaction, the
\* second a failure without a receipt.
C27_RevertAndTimeoutAreDistinctFailures ==
    /\ approval.receipt = "reverted"
       => ~approval.success /\ approval.status = "failed"
    /\ approval.status = "failed" /\ Len(ApprovalAttempts) = 1
       /\ ApprovalAttempts[1].accepted
       => approval.receipt \in {"none", "reverted"}

C27_Witness ==
    /\ approval.receipt = "reverted"
    /\ approval.status = "confirmed"
    /\ approval.success
    /\ approval.confirmations = ApprovalConfirmations

\* C28: the approval step reports success only when the allowance was
\* sufficient or the approval was confirmed with a successful receipt; a
\* request whose approval could not be submitted, reverted or timed out
\* never submits a swap transaction.
C28_ApprovalStateMachine ==
    /\ approval.success
       => \/ approval.status = "not_needed"
          \/ approval.status = "confirmed" /\ approval.receipt = "success"
    /\ approval.status = "failed" \/ approval.receipt = "reverted"
       => SwapAttempts = << >>

C28_Witness ==
    /\ approval.receipt = "reverted"
    /\ Len(SwapAttempts) = 1
    /\ SwapAttempts[1].accepted

(* --------------------- properties of the calldata ---------------------- *)
\* The DEX a handler executes on, and the quote it got from it.
ExecutingDex == IF tool = ArbitrageTool THEN loc.executeDex ELSE ProtocolOf(tool)

CarriesCalldata ==
    /\ quotes[ExecutingDex].status = "fulfilled"
    /\ quotes[ExecutingDex].calldata

\* C29: a quote with prebuilt calldata is executed as a raw transaction to
\* the quote's 'to', which is also the spender of the allowance; without
\* it, spender and target are the protocol's router; the approved spender
\* always is the address the swap is sent to.
C29_SpenderIsSwapTarget ==
    \A i \in 1..Len(SwapAttempts) :
       /\ \A j \in 1..Len(ApprovalAttempts) :
             ApprovalAttempts[j].to = SwapAttempts[i].to
       /\ SwapAttempts[i].to = loc.spenderAddress
       /\ IF CarriesCalldata
          THEN SwapAttempts[i].to = API_CONTRACT
          ELSE SwapAttempts[i].to = ROUTER[ExecutingDex]

C29_Witness ==
    /\ tool = "dragonswap_swap_legacy"
    /\ CarriesCalldata
    /\ Len(ApprovalAttempts) = 1
    /\ ApprovalAttempts[1].to = ROUTER["dragonswap"]
    /\ Len(SwapAttempts) = 1
    /\ SwapAttempts[1].to = ROUTER["dragonswap"]
    /\ SwapAttempts[1].fn = "swapExactTokensForTokens"

(* ----------------------- properties of the schema ---------------------- *)
\* The call violates the invariant of a swap request.
ViolatesSwapRequest ==
    \/ toLowerCase(call.tokenIn) = toLowerCase(call.tokenOut)
    \/ ~isAddress(call.tokenIn)
    \/ ~isAddress(call.tokenOut)
    \/ LET num == parseFloat(call.amountIn)
       IN num.isNaN \/ num.negative \/ ~num.nonZero
    \/ call.slippage.given
       /\ (call.slippage.value < 0 \/ call.slippage.value > 100)

\* C30: a swap request that violates the invariant (tokenIn = tokenOut, a
\* malformed address, amountIn not above 0, slippage outside 0..100 %) is
\* rejected as an input validation error before any I/O.
C30_InvalidRequestRejectedBeforeIO ==
    call.stage \notin {"none", "received"} /\ ViolatesSwapRequest
    => call.stage = "rejected" /\ ~call.chainRead

C30_Witness ==
    /\ call.stage = "handler"
    /\ call.chainRead
    /\ call.tokenIn = TokenA
    /\ call.tokenOut = TokenA
    /\ call.amountIn = <<"1">>
    /\ ~call.slippage.given

(* ------------------------ properties of the fees ----------------------- *)
\* C37: every GasPlan has maxFeePerGas >= maxPriorityFeePerGas, whatever
\* override, gas price and fee hints of the quote it was derived from.
C37_MaxFeeCoversPriorityFee ==
    gasPlan.made => gasPlan.maxFeePerGas >= gasPlan.maxPriorityFeePerGas

C37_Witness ==
    /\ gasPlan.made
    /\ gasInput.protocol = "sailor"
    /\ gasInput.apiMaxPriorityFeePerGas = 40
    /\ gasInput.apiMaxFeePerGas = 5
    /\ gasPlan.maxPriorityFeePerGas = 40
    /\ gasPlan.maxFeePerGas = 5

(* ------------------- properties of the returned hash ------------------- *)
\* C33: a result returned for a transaction that was broadcast carries its
\* hash, also when the wait for the receipt timed out or threw; a result
\* without a hash means that nothing was broadcast.
C33_BroadcastResultCarriesHash ==
    exec.returned => (exec.submitted <=> exec.hash)

C33_Witness ==
    /\ exec.returned
    /\ exec.submitted
    /\ exec.waitThrew
    /\ ~exec.hash
    /\ exec.type = "execution_failed"
    /\ Len(SwapAttempts) = 1
    /\ SwapAttempts[1].accepted

(* --------------- properties of the caller's minAmountOut --------------- *)
\* C38: a caller-supplied minAmountOut is a decimal token amount on both
\* DEX pipelines: the minimum submitted on-chain is minAmountOut scaled by
\* 10^tokenOutDecimals.
C38_CallerMinimumIsTokenAmount ==
    tool \in SwapTools /\ req.minGiven
    => \A i \in 1..Len(SwapAttempts) :
          SwapAttempts[i].fn \notin {"sendTransaction", "multicall"}
          => SwapAttempts[i].minOut =
                req.minAmountOut * TenPow(swapInfo.tokenOutDecimals)

C38_Witness ==
    /\ tool = "sailor_swap"
    /\ req.minGiven
    /\ req.minAmountOut = 1
    /\ swapInfo.tokenOutDecimals = 1
    /\ Len(SwapAttempts) = 1
    /\ SwapAttempts[1].minOut = 1

(* -------------------- properties of autoCalculated --------------------- *)
\* C39: in the success response of a swap, slippage.autoCalculated is true
\* exactly when the caller did not supply minAmountOut, on the refactored
\* and on the legacy swap tools alike.
C39_AutoCalculatedIffNoCallerMinimum ==
    tool \in SwapTools /\ result.kind = "success"
    => (result.autoCalculated <=> ~req.minGiven)

C39_Witness ==
    /\ tool = "dragonswap_swap"
    /\ result.kind = "success"
    /\ ~req.minGiven
    /\ loc.minSet
    /\ ~result.autoCalculated

(* -------------------- properties of a zero quote ----------------------- *)
\* C36: execute_arbitrage_opportunity submits a transaction only when both
\* quoted outputs are positive and the spread is not below the minimum; it
\* never executes on a DEX whose own quote reported zero output.
C36_ExecutesOnlyOnPositiveQuotes ==
    tool = ArbitrageTool /\ attempts # << >>
    => /\ BothFulfilled
       /\ MinOutput > 0
       /\ (MaxOutput - MinOutput) * 100 >= req.minProfitPercent * MinOutput
       /\ OutputOf(loc.executeDex) > 0

C36_Witness ==
    /\ tool = ArbitrageTool
    /\ BothFulfilled
    /\ OutputOf("dragonswap") = 1
    /\ OutputOf("sailor") = 0
    /\ loc.executeDex = "sailor"
    /\ Len(SwapAttempts) = 1
    /\ SwapAttempts[1].to = ROUTER["sailor"]
    /\ SwapAttempts[1].minOut = 0
    /\ SwapAttempts[1].accepted

(* ------------------ properties of a disabled protocol ------------------ *)
\* C32: while a protocol is disabled no invocation requests a quote from
\* its routing API or submits a transaction to its router; the protocol's
\* own swap and quote tools end with the protocol-disabled error before
\* any chain read.
C32_DisabledProtocolUntouched ==
    \A dex \in Dexes :
       ~config[dex] /\ pc # "idle"
       => /\ quotes[dex].status = "none"
          /\ \A i \in 1..Len(attempts) : attempts[i].to # ROUTER[dex]
          /\ tool # ArbitrageTool /\ ProtocolOf(tool) = dex /\ pc = "done"
             => /\ result = createProtocolDisabledError
                /\ swapInfo = NoSwapInfo

C32_Witness ==
    /\ tool = ArbitrageTool
    /\ ~config["dragonswap"]
    /\ config["sailor"]
    /\ quotes["dragonswap"].status = "fulfilled"
    /\ Len(SwapAttempts) = 1
    /\ SwapAttempts[1].to = ROUTER["dragonswap"]

(* ------------------ properties of a skipped approval ------------------- *)
\* The allowance the chain holds for the address that spends the tokens.
AllowanceOfSpender ==
    IF loc.spenderAddress = API_CONTRACT THEN loc.spenderAllowance
    ELSE swapInfo.allowance

\* C34: whenever the approval step is skipped, the allowance granted
\* on-chain to the spender is at least amountIn; the router's allowance is
\* not taken for the allowance of the 'to' of prebuilt calldata.
C34_SkippedApprovalHasAllowance ==
    approval.status = "not_needed" => AllowanceOfSpender >= loc.amountInParsed

C34_Witness ==
    /\ approval.status = "not_needed"
    /\ loc.spenderAddress = API_CONTRACT
    /\ loc.spenderAllowance = 0
    /\ swapInfo.allowance = 1
    /\ loc.currentAllowance = 1
    /\ loc.amountInParsed = 1
    /\ Len(SwapAttempts) = 1

(* ------------------- BaseTokenFetcher: the token cache ------------------ *)
\* cacheExpiry in ticks of the clock (the constructor's default is 30 min).
cacheExpiry == 2

\* The variables of the tool handlers and of the pure functions.
toolVars ==
    <<config, pc, tool, req, swapInfo, quotes, loc, approval, exec, attempts,
      log, raised, result, escaped, route, encoded, analysis, gasInput,
      gasPlan, subcalls, read, call>>

\* Some getTokens call awaits fetchTokensFromSource.
FetchPending == \E c \in Callers : getTokensCalls[c].pc = "fetching"

\* Date.now() advances.
Tick ==
    /\ tokenSource.now < MaxNow
    /\ tokenSource' = [tokenSource EXCEPT !.now = @ + 1]
    /\ UNCHANGED <<fetcher, getTokensCalls>>
    /\ UNCHANGED <<toolVars, allowanceOnChain, requests>>

\* getTokens(forceRefresh) up to its return of the cache or its await of
\* fetchTokensFromSource.
getTokens(c, forceRefresh) ==
    /\ getTokensCalls[c].pc # "fetching"
    /\ LET now == tokenSource.now
           useCache == /\ ~forceRefresh
                       /\ fetcher.cache # 0
                       /\ (now - fetcher.lastFetch) < cacheExpiry
           begun == [NoTokenCall EXCEPT
                        !.now = now, !.forceRefresh = forceRefresh,
                        !.cacheAtStart = fetcher.cache,
                        !.ageAtStart = now - fetcher.lastFetch,
                        !.afterClear = tokenSource.cleared]
       IN  /\ ~useCache => tokenSource.fetches < MaxFetches
           /\ getTokensCalls' =
                [getTokensCalls EXCEPT ![c] =
                    IF useCache
                    THEN [begun EXCEPT !.pc = "done",
                                       !.returned = fetcher.cache,
                                       !.last = tokenSource.served]
                    ELSE [begun EXCEPT !.pc = "fetching", !.fetched = TRUE]]
           /\ tokenSource' =
                [tokenSource EXCEPT
                    !.cleared = FALSE,
                    !.fetches = IF useCache THEN @ ELSE @ + 1,
                    !.overlapped = @ \/ FetchPending]
    /\ UNCHANGED fetcher
    /\ UNCHANGED <<toolVars, allowanceOnChain, requests>>

\* fetchTokensFromSource resolves: the cache is replaced, lastFetch is the
\* now the call read when it began, the new cache is returned.
fetchResolves(c) ==
    /\ getTokensCalls[c].pc = "fetching"
    /\ LET tokens == tokenSource.served + 1
       IN  /\ fetcher' = [cache |-> tokens,
                          lastFetch |-> getTokensCalls[c].now]
           /\ tokenSource' = [tokenSource EXCEPT !.served = tokens]
           /\ getTokensCalls' =
                [getTokensCalls EXCEPT ![c] =
                    [@ EXCEPT !.pc = "done", !.returned = tokens,
                              !.last = tokens]]
    /\ UNCHANGED <<toolVars, allowanceOnChain, requests>>

\* fetchTokensFromSource rejects: the cache, if there is one now, is
\* returned; otherwise the error is rethrown.
fetchRejects(c) ==
    /\ getTokensCalls[c].pc = "fetching"
    /\ getTokensCalls' =
         [getTokensCalls EXCEPT ![c] =
             IF fetcher.cache # 0
             THEN [@ EXCEPT !.pc = "done", !.failed = TRUE,
                            !.cacheAtFailure = fetcher.cache,
                            !.returned = fetcher.cache,
                            !.last = tokenSource.served]
             ELSE [@ EXCEPT !.pc = "done", !.failed = TRUE,
                            !.threw = TRUE]]
    /\ UNCHANGED <<fetcher, tokenSource>>
    /\ UNCHANGED <<toolVars, allowanceOnChain, requests>>

clearCache ==
    /\ fetcher' = [cache |-> 0, lastFetch |-> 0]
    /\ tokenSource' = [tokenSource EXCEPT !.cleared = TRUE,
                                          !.overlapped = @ \/ FetchPending]
    /\ UNCHANGED getTokensCalls
    /\ UNCHANGED <<toolVars, allowanceOnChain, requests>>

InitCache ==
    /\ HandlersIdle
    /\ route = NoRoute
    /\ encoded = NoEncoded
    /\ allowanceOnChain = 0
    /\ requests = NoSwapRequests
    /\ analysis = NoAnalysis
    /\ gasInput = NoGasInput
    /\ gasPlan = NoGasPlan
    /\ subcalls = NoSubcalls
    /\ read = NoRead
    /\ call = NoCall
    /\ fetcher = NoFetcher
    /\ getTokensCalls = NoTokenCalls
    /\ tokenSource = NoTokenSource

NextCache ==
    \/ Tick
    \/ \E c \in Callers, forceRefresh \in BOOLEAN : getTokens(c, forceRefresh)
    \/ \E c \in Callers : fetchResolves(c)
    \/ \E c \in Callers : fetchRejects(c)
    \/ clearCache

SpecCache == InitCache /\ [][NextCache]_vars

(* ---------------------- properties of the token cache -------------------- *)
\* The getTokens calls that have returned or thrown.
ReturnedTokenCalls == {c \in Callers : getTokensCalls[c].pc = "done"}

\* A call answers from the cache exactly when forceRefresh is false and the
\* cache it found is younger than cacheExpiry.
CacheHitRule ==
    \A c \in ReturnedTokenCalls :
        LET t == getTokensCalls[c]
        IN  ~t.fetched <=> (/\ ~t.forceRefresh
                            /\ t.cacheAtStart # 0
                            /\ t.ageAtStart < cacheExpiry)

\* A failed fetch returns the cache there is when it fails, and throws only
\* when there is none.
FailedFetchRule ==
    \A c \in ReturnedTokenCalls :
        LET t == getTokensCalls[c]
        IN  t.failed =>
                IF t.cacheAtFailure # 0
                THEN ~t.threw /\ t.returned = t.cacheAtFailure
                ELSE t.threw

\* A failed fetch leaves cache and lastFetch as they were.
FailedFetchKeepsCache ==
    [][\A c \in Callers :
          getTokensCalls[c].pc = "fetching" /\ getTokensCalls'[c].failed
              => fetcher' = fetcher]_vars

\* The first call begun after clearCache fetches.
AfterClearRule ==
    \A c \in Callers :
        getTokensCalls[c].afterClear /\ getTokensCalls[c].pc # "idle"
            => getTokensCalls[c].fetched

\* A returned list is the latest successfully fetched one (the one the call
\* fetched itself included).
ReturnedListRule ==
    \A c \in ReturnedTokenCalls :
        LET t == getTokensCalls[c]
        IN  ~t.threw => t.returned # 0 /\ t.returned = t.last

\* C40: getTokens answers from the cache exactly when forceRefresh is false
\* and the cache is younger than cacheExpiry, otherwise fetches; a failed
\* fetch returns the previous cache and throws only without one; the first
\* getTokens after clearCache fetches; a returned list is freshly fetched or
\* the last successfully fetched one.
C40_CacheContract ==
    /\ CacheHitRule
    /\ FailedFetchRule
    /\ AfterClearRule
    /\ ReturnedListRule

\* A getTokens call begun after clearCache, with no forceRefresh, returned
\* without fetching: a fetch begun before the clearCache filled the cache.
C40_Witness ==
    \E c \in ReturnedTokenCalls :
        /\ getTokensCalls[c].afterClear
        /\ ~getTokensCalls[c].fetched
        /\ getTokensCalls[c].returned # 0
        /\ tokenSource.overlapped

(* ------------- two concurrent dragonswap_swap requests ------------------ *)
\* The ApprovalParams as they would be if the requests kept them in one
\* object: those of the smallest request waiting for its approval step.
ApprovalParams_LastValidated(r) ==
    LET seen == {x \in Requests : requests[x].pc = "validated"}
        x == CHOOSE y \in seen : \A z \in seen : requests[y].amountIn <= requests[z].amountIn
    IN  [amountInParsed |-> requests[x].amountIn,
         currentAllowance |-> requests[x].currentAllowance]

\* The ApprovalParams a request hands to its own SwapApprovalService: the
\* locals of its own handler invocation.
ApprovalParams(r) ==
    [amountInParsed |-> requests[r].amountIn,
     currentAllowance |-> requests[r].currentAllowance]

\* The handler's entry: the protocol check on the protocolConfig singleton.
SwapEnters(r, amountIn) ==
    /\ requests[r].pc = "idle"
    /\ requests' =
         [requests EXCEPT ![r] =
             IF shouldFetchProtocolData("dragonswap")
             THEN [NoSwapRequest EXCEPT !.pc = "entered",
                                        !.amountIn = amountIn,
                                        !.enabled = TRUE]
             ELSE [NoSwapRequest EXCEPT !.pc = "done",
                                        !.amountIn = amountIn,
                                        !.result = "protocol_disabled"]]
    /\ UNCHANGED <<toolVars, fetcher, getTokensCalls, tokenSource,
                   allowanceOnChain>>

\* validateSwapParameters: getSwapInfo reads the allowance of the router.
SwapValidates(r) ==
    /\ requests[r].pc = "entered"
    /\ requests' = [requests EXCEPT ![r].pc = "validated",
                                    ![r].currentAllowance = allowanceOnChain]
    /\ UNCHANGED <<toolVars, fetcher, getTokensCalls, tokenSource,
                   allowanceOnChain>>

\* handleAutoApproval up to its await of approveERC20: nothing to do, or
\* an approval of exactly amountIn is sent.
SwapApproves(r) ==
    /\ requests[r].pc = "validated"
    /\ LET params == ApprovalParams(r)
       IN  requests' =
             [requests EXCEPT ![r].pc =
                 IF params.currentAllowance >= params.amountInParsed
                 THEN "approved" ELSE "approving"]
    /\ UNCHANGED <<toolVars, fetcher, getTokensCalls, tokenSource,
                   allowanceOnChain>>

\* The approval is mined and confirmed (approve sets the allowance to the
\* amount), or approveERC20 or the wait for the receipt throws.
ApprovalSettles(r, outcome) ==
    /\ requests[r].pc = "approving"
    /\ IF outcome = "confirmed"
       THEN /\ allowanceOnChain' = requests[r].amountIn
            /\ requests' = [requests EXCEPT ![r].pc = "approved",
                                            ![r].approveOutcome = outcome]
       ELSE /\ UNCHANGED allowanceOnChain
            /\ requests' = [requests EXCEPT ![r].pc = "done",
                                            ![r].approveOutcome = outcome,
                                            ![r].result = "approval_failed"]
    /\ UNCHANGED <<toolVars, fetcher, getTokensCalls, tokenSource>>

\* executeTransaction submits the swap.
SwapSubmits(r) ==
    /\ requests[r].pc = "approved"
    /\ requests' = [requests EXCEPT ![r].pc = "submitted",
                                    ![r].allowanceAtSubmit = allowanceOnChain]
    /\ UNCHANGED <<toolVars, fetcher, getTokensCalls, tokenSource,
                   allowanceOnChain>>

\* The swap is mined: the router's transferFrom spends amountIn of the
\* allowance, or reverts when the allowance is short; the receipt arrives.
SwapSettles(r) ==
    /\ requests[r].pc = "submitted"
    /\ IF allowanceOnChain >= requests[r].amountIn
       THEN /\ allowanceOnChain' = allowanceOnChain - requests[r].amountIn
            /\ requests' = [requests EXCEPT ![r].pc = "done",
                                            ![r].swapOutcome = "success",
                                            ![r].result = "success"]
       ELSE /\ UNCHANGED allowanceOnChain
            /\ requests' = [requests EXCEPT ![r].pc = "done",
                                            ![r].swapOutcome = "reverted",
                                            ![r].result = "execution_failed"]
    /\ UNCHANGED <<toolVars, fetcher, getTokensCalls, tokenSource>>

InitRace ==
    /\ HandlersIdle
    /\ route = NoRoute
    /\ encoded = NoEncoded
    /\ analysis = NoAnalysis
    /\ gasInput = NoGasInput
    /\ gasPlan = NoGasPlan
    /\ subcalls = NoSubcalls
    /\ read = NoRead
    /\ call = NoCall
    /\ fetcher = NoFetcher
    /\ getTokensCalls = NoTokenCalls
    /\ tokenSource = NoTokenSource
    /\ allowanceOnChain \in 0..MaxAmount
    /\ requests = NoSwapRequests

NextRace ==
    \/ \E r \in Requests, amountIn \in 1..MaxAmount : SwapEnters(r, amountIn)
    \/ \E r \in Requests : SwapValidates(r)
    \/ \E r \in Requests : SwapApproves(r)
    \/ \E r \in Requests, outcome \in {"confirmed", "failed"} :
          ApprovalSettles(r, outcome)
    \/ \E r \in Requests : SwapSubmits(r)
    \/ \E r \in Requests : SwapSettles(r)
    \/ disableProtocol("dragonswap")
    \/ enableProtocol("dragonswap")

SpecRace == InitRace /\ [][NextRace]_vars

(* ---------------- properties of two concurrent requests ----------------- *)
\* The requests whose swap transaction was submitted.
SubmittedRequests ==
    {r \in Requests : requests[r].pc = "submitted"
                      \/ requests[r].swapOutcome # "none"}

\* Each of the two requests found its allowance short and had its approval
\* confirmed.
BothApproved == \A r \in Requests : requests[r].approveOutcome = "confirmed"

\* C35: when two concurrent requests of one wallet for one token and
\* spender each found the allowance insufficient and approved, the on-chain
\* allowance at the moment each swap is submitted is at least that swap's
\* amountIn.
C35_SubmittedSwapIsApproved ==
    BothApproved =>
        \A r \in SubmittedRequests :
            requests[r].allowanceAtSubmit >= requests[r].amountIn

\* Both requests approved, and the second approval (for 1) replaced the
\* first (for 2) before the first request submitted its swap.
C35_Witness ==
    /\ BothApproved
    /\ requests["r1"].amountIn = 2
    /\ requests["r2"].amountIn = 1
    /\ "r1" \in SubmittedRequests
    /\ requests["r1"].allowanceAtSubmit = 1

\* What a request returns when it runs alone and protocolConfig and the
\* chain answer it as they answered q.
SoloResult(q) ==
    IF ~q.enabled THEN "protocol_disabled"
    ELSE IF q.currentAllowance < q.amountIn /\ q.approveOutcome = "failed"
         THEN "approval_failed"
    ELSE IF q.swapOutcome = "reverted" THEN "execution_failed"
    ELSE "success"

\* What of a request's record protocolConfig and the chain answered.
Answers(q) ==
    <<q.amountIn, q.enabled, q.currentAllowance, q.approveOutcome,
      q.swapOutcome>>

FinishedRequests == {r \in Requests : requests[r].pc = "done"}

\* Each finished request returned what it returns alone against the same
\* answers, approved exactly when its own allowance was short of its own
\* amountIn, and two requests with the same parameters and answers returned
\* the same result.
ResultsAsAlone ==
    /\ \A r \in FinishedRequests :
          /\ requests[r].result = SoloResult(requests[r])
          /\ requests[r].approveOutcome # "none"
               <=> (/\ requests[r].enabled
                    /\ requests[r].currentAllowance < requests[r].amountIn)
    /\ \A r1, r2 \in FinishedRequests :
          Answers(requests[r1]) = Answers(requests[r2])
              => requests[r1].result = requests[r2].result

\* A step of one request leaves the record of the other alone.
OwnRecordOnly ==
    [][\A r1, r2 \in Requests :
          (r1 # r2 /\ requests'[r1] # requests[r1])
              => requests'[r2] = requests[r2]]_vars

====
